---- MODULE Spec2Model ----
(***************************************************************************)
(* Shape-detection engine of CppObjectRecognition: region extraction by    *)
(* scanline flood fill, the per-contour fan-out of the detectors, and the  *)
(* fusion / deduplication pass.                                            *)
(*                                                                         *)
(* Several specifications share this module, one per part of the engine:   *)
(*   SpecFill    FindContours / ScanlineFillContour on a binarized raster  *)
(*   SpecDetect  DetectRectangles: the strategies, the per-contour fan-out *)
(*               of ProcessContoursAtScale, deduplication, two calls       *)
(*   SpecDedup   RemoveDuplicateRectangles on bounded candidate lists      *)
(*   SpecObloid  DetectObloids and DetectSpheres on contours of small      *)
(*               shapes, for a range of detector parameters                *)
(*   SpecBlank   DetectRectangles and DetectSpheres, from the raster on,   *)
(*               for rasters without foreground                            *)
(*   SpecArea    DetectRectangles, from the raster on, for rasters holding *)
(*               one filled axis-aligned rectangle                         *)
(* Each specification keeps the variables of the other parts at their      *)
(* idle values.                                                            *)
(***************************************************************************)
EXTENDS Integers, Sequences, FiniteSets, TLC

VARIABLES
    \* ---- region extractor (FindContours, ScanlineFillContour) ----
    image,       \* the binarized raster FindContours is given
    visited,     \* the visited matrix, as the set of points marked true
    cursor,      \* row-major position of the FindContours scan (y * width + x)
    stack,       \* std::stack<ScanlineSegment>, top is the last element
    region,      \* the region vector the current fill appends to
    seed,        \* <<startX, startY>> of the current fill
    visited0,    \* the visited matrix at the start of the current fill
    pops,        \* number of segments popped by the current fill
    contours,    \* the contours vector FindContours returns
    lastBoundary, \* the boundary vector the last ExtractBoundary call returned
    regions,     \* history: the regions the fills have returned, in order
    finder,      \* whose FindContours runs: "RectangleDetector", "ObloidDetector"
    fpc,         \* position in FindContours: "scan", "fill", "done", "idle"
    \* ---- DetectRectangles and ProcessContoursAtScale ----
    scene,            \* the contour list FindContours yields for the image
    dpc,              \* position in DetectRectangles
    strategy,         \* the strategy being run (1 .. 4)
    rectangles,       \* the rectangles vector of the current call
    tempRectangles,   \* tempRectangles of the parallel branch
    validRectangles,  \* std::vector<bool>, as word index -> set of set bits
    nextIter,         \* next iteration the dynamic schedule hands out
    thr,              \* the busy threads of the team, each [pc, i, word]: its
                      \* position, its iteration and the flag word it loaded
    results,          \* what the calls so far returned, in call order
    dedupRuns,        \* RemoveDuplicateRectangles runs in the current call
    \* ---- RemoveDuplicateRectangles on its own ----
    candidates,       \* the vector passed in
    deduped,          \* the vector after the call
    rpc,              \* "call" before, "done" after, "idle"
    \* ---- DetectObloids / DetectSpheres ----
    oapi,             \* the entry point called
    oconfig,          \* the parameters of the detector the caller configured
    ocontours,        \* the contours FindContours yields for the image
    obloids,          \* the obloids vector of DetectObloids
    circles,          \* the list handed back to the caller
    opc,              \* position in the call
    \* ---- DetectRectangles from the raster on ----
    input,            \* the Image the caller passes
    config,           \* minArea_, maxArea_ and approxEpsilon_ of the detector
    ipc,              \* position in DetectRectangles
    detected,         \* its rectangles vector
    touched,          \* the pixel indices read or written so far
    produced,         \* history: the contour points and polygon corners computed
    \* ---- the detectors' parameters across calls ----
    lastSet,          \* history: the value each parameter was last given, by
                      \* the constructor or by its setter
    callConfig,       \* history: lastSet as the current call began
    \* ---- ApproximateContour, IsRectangle and CreateRectangle on a contour ----
    apxContour,       \* the contour passed in
    apxConfig,        \* minArea_, maxArea_ and approxEpsilon_
    apc,              \* position in ApproximateContour and after it
    multiplierIndex,  \* position of the loop over epsilonMultipliers
    apxResult,        \* the vertex list ApproximateContour returns
    tried,            \* history: the strategies reached so far, in order
    returnedBy,       \* history: the strategy whose result was returned
    verdict,          \* what IsRectangle returns for the contour
    afterCleanup,     \* what CleanupCorners returns in CreateRectangle
    cleanCorners,     \* the corners CreateRectangle computes the sides from
    created           \* the Rectangle CreateRectangle returns

fillVars == <<image, visited, cursor, stack, region, seed, visited0, pops,
              contours, lastBoundary, regions, finder, fpc>>

detVars == <<scene, dpc, strategy, rectangles, tempRectangles, validRectangles,
             nextIter, thr, results, dedupRuns>>

dupVars == <<candidates, deduped, rpc>>

oblVars == <<oapi, oconfig, ocontours, obloids, circles, opc>>

pipVars == <<input, config, ipc, detected, touched, produced>>

cfgVars == <<lastSet, callConfig>>

recVars == <<verdict, afterCleanup, cleanCorners, created>>

apxVars == <<apxContour, apxConfig, apc, multiplierIndex, apxResult, tried,
             returnedBy, recVars>>

vars == <<fillVars, detVars, dupVars, oblVars, pipVars, cfgVars, apxVars>>

\* each specification runs one part of the program and leaves the rest alone
fillFrame == UNCHANGED <<detVars, dupVars, oblVars, pipVars, cfgVars, apxVars>>
detFrame == UNCHANGED <<fillVars, dupVars, oblVars, pipVars, cfgVars, apxVars>>
dupFrame == UNCHANGED <<fillVars, detVars, oblVars, pipVars, cfgVars, apxVars>>
oblFrame == UNCHANGED <<fillVars, detVars, dupVars, pipVars, cfgVars, apxVars>>
pipFrame == UNCHANGED <<fillVars, detVars, dupVars, oblVars, cfgVars, apxVars>>

(***************************************************************************)
(* Bounds of the model.                                                    *)
(***************************************************************************)
Side == 3          \* rasters of the fill specification are Side x Side
NumThreads == 2    \* worker threads of the OpenMP team
MaxAccepted == 2   \* at most this many contours of a scene are rectangles
MaxCalls == 2      \* DetectRectangles calls on one detector instance
MaxRects == 3      \* candidate lists of the dedup specification: up to MaxRects
MaxCenter == 2     \* their centers have x in 0 .. MaxCenter

(***************************************************************************)
(* Program constants.                                                      *)
(***************************************************************************)
Foreground == 255
MinRegionSize == 50
MinBoundarySize == 8
ObloidMinRegionSize == 20
HoughThreshold == 30
CurvatureThreshold == 50
MinDistanceSquared == 1
MinDistanceSquaredLarge == 64
ParallelThreshold == 10
BitsPerWord == 64
NumStrategies == 4

(***************************************************************************)
(* Idle values: what a specification gives the variables of the parts it   *)
(* does not run.                                                           *)
(***************************************************************************)
IdleFill ==
    /\ image = <<>>
    /\ visited = {}
    /\ cursor = 0
    /\ stack = <<>>
    /\ region = <<>>
    /\ seed = <<0, 0>>
    /\ visited0 = {}
    /\ pops = 0
    /\ contours = <<>>
    /\ lastBoundary = <<>>
    /\ regions = <<>>
    /\ finder = "idle"
    /\ fpc = "idle"

IdleDetect ==
    /\ scene = <<>>
    /\ dpc = "idle"
    /\ strategy = 0
    /\ rectangles = <<>>
    /\ tempRectangles = <<>>
    /\ validRectangles = <<>>
    /\ nextIter = 0
    /\ thr = {}
    /\ results = <<>>
    /\ dedupRuns = 0

IdleDedup ==
    /\ candidates = <<>>
    /\ deduped = <<>>
    /\ rpc = "idle"

IdleObloid ==
    /\ oapi = "idle"
    /\ oconfig = <<>>
    /\ ocontours = <<>>
    /\ obloids = <<>>
    /\ circles = <<>>
    /\ opc = "idle"

IdleConfig ==
    /\ lastSet = <<>>
    /\ callConfig = <<>>

IdleApprox ==
    /\ apxContour = <<>>
    /\ apxConfig = <<>>
    /\ apc = "idle"
    /\ multiplierIndex = 0
    /\ apxResult = <<>>
    /\ tried = <<>>
    /\ returnedBy = "idle"
    /\ verdict = "idle"
    /\ afterCleanup = <<>>
    /\ cleanCorners = <<>>
    /\ created = <<>>

IdlePipeline ==
    /\ input = <<>>
    /\ config = <<>>
    /\ ipc = "idle"
    /\ detected = <<>>
    /\ touched = {}
    /\ produced = {}

(***************************************************************************)
(* Generic helpers.                                                        *)
(***************************************************************************)
\* F applied to the value of e, which is computed once
Let(e, F(_)) == CHOOSE r \in {F(v) : v \in {e}} : TRUE

Min2(a, b) == IF a < b THEN a ELSE b
Max2(a, b) == IF a > b THEN a ELSE b
Abs(a) == IF a < 0 THEN -a ELSE a
Range(s) == {s[i] : i \in DOMAIN s}

RECURSIVE SeqOfSet(_)
SeqOfSet(S) ==
    IF S = {} THEN <<>>
    ELSE LET e == CHOOSE e \in S : TRUE IN <<e>> \o SeqOfSet(S \ {e})

\* floor of the square root of n, by bisection within lo .. hi
RECURSIVE IsqrtBetween(_, _, _)
IsqrtBetween(n, lo, hi) ==
    IF lo >= hi THEN lo
    ELSE LET mid == (lo + hi + 1) \div 2
         IN IF mid * mid <= n THEN IsqrtBetween(n, mid, hi)
                              ELSE IsqrtBetween(n, lo, mid - 1)

\* std::round(p / q): to nearest, halves away from zero
RoundDiv(p, q) ==
    LET a == Abs(p)
        b == Abs(q)
        m == (2 * a + b) \div (2 * b)
    IN IF (p < 0) = (q < 0) THEN m ELSE -m

RECURSIVE SumInts(_)
SumInts(s) == IF s = <<>> THEN 0 ELSE Head(s) + SumInts(Tail(s))

(***************************************************************************)
(* Raster of the fill specification.  A point is <<x, y>>.                 *)
(***************************************************************************)
\* struct Image: pixels[y][x] is pixels[<<x, y>>] here
PointsOf(w, h) == (0 .. w - 1) \X (0 .. h - 1)

\* The pixel function is compared with itself so that TLC tabulates it once
\* instead of evaluating its expression at every application.
Image(w, h, f) ==
    LET pixels == f
    IN IF pixels = pixels THEN [width |-> w, height |-> h, pixels |-> pixels]
       ELSE [width |-> w, height |-> h, pixels |-> pixels]

\* image.pixels[y][x] == 255 && !visited[y][x]
Fillable(img, vis, x, y) == img.pixels[<<x, y>>] = Foreground /\ <<x, y>> \notin vis

\* while (x1 > 0 && image.pixels[y][x1-1] == 255 && !visited[y][x1-1]) x1--;
RECURSIVE ExtendLeft(_, _, _, _)
ExtendLeft(img, vis, x, y) ==
    IF x > 0 /\ Fillable(img, vis, x - 1, y)
    THEN ExtendLeft(img, vis, x - 1, y) ELSE x

\* while (x2 < image.width-1 && image.pixels[y][x2+1] == 255 && !visited[y][x2+1]) x2++;
RECURSIVE ExtendRight(_, _, _, _)
ExtendRight(img, vis, x, y) ==
    IF x < img.width - 1 /\ Fillable(img, vis, x + 1, y)
    THEN ExtendRight(img, vis, x + 1, y) ELSE x

ScanlineSegment(y, x1, x2, parentY) ==
    [y |-> y, x1 |-> x1, x2 |-> x2, parentY |-> parentY]

\* mutant: the scan of a neighbouring row does not look at visited
RECURSIVE ScanRowIgnoringVisited(_, _, _, _, _, _)
ScanRowIgnoringVisited(img, vis, newY, x, x2, parentY) ==
    IF x > x2 THEN <<>>
    ELSE IF ~Fillable(img, {}, x, newY)
         THEN ScanRowIgnoringVisited(img, vis, newY, x + 1, x2, parentY)
         ELSE <<ScanlineSegment(newY, ExtendLeft(img, {}, x, newY),
                                ExtendRight(img, {}, x, newY), parentY)>>
              \o ScanRowIgnoringVisited(img, vis, newY,
                                        ExtendRight(img, {}, x, newY) + 1, x2,
                                        parentY)

\* The inner while (x <= seg.x2) loop of one direction: the segments pushed
\* for row newY while scanning columns x .. x2, in push order.
RECURSIVE ScanRow(_, _, _, _, _, _)
ScanRow(img, vis, newY, x, x2, parentY) ==
    IF x > x2 THEN <<>>
    ELSE IF ~Fillable(img, vis, x, newY)
         THEN ScanRow(img, vis, newY, x + 1, x2, parentY)
         ELSE LET newX1 == x
                  \* while (x <= seg.x2 && fillable) x++;  newX2 = x - 1
                  runEnd == CHOOSE e \in x .. x2 :
                              /\ \A k \in x .. e : Fillable(img, vis, k, newY)
                              /\ (e = x2 \/ ~Fillable(img, vis, e + 1, newY))
                  left == ExtendLeft(img, vis, newX1, newY)
                  right == ExtendRight(img, vis, runEnd, newY)
              IN <<ScanlineSegment(newY, left, right, parentY)>>
                 \o ScanRow(img, vis, newY, runEnd + 1, x2, parentY)

\* mutant: only the row above is scanned
PushedByAboveOnly(img, vis, seg) ==
    LET newY == seg.y - 1
    IN IF newY < 0 \/ newY >= img.height THEN <<>>
       ELSE ScanRow(img, vis, newY, seg.x1, seg.x2, seg.y)

\* for (int dir = -1; dir <= 1; dir += 2): the row above, then the row below
PushedBy(img, vis, seg) ==
    LET dirRow(dir) ==
            LET newY == seg.y + dir
            IN IF newY < 0 \/ newY >= img.height THEN <<>>
               ELSE ScanRow(img, vis, newY, seg.x1, seg.x2, seg.y)
    IN dirRow(-1) \o dirRow(1)

\* mutant: every pixel of the run is recorded, visited or not
RECURSIVE MarkRunUnguarded(_, _, _, _)
MarkRunUnguarded(vis, y, x, x2) ==
    IF x > x2 THEN <<>>
    ELSE <<(<<x, y>>)>> \o MarkRunUnguarded(vis, y, x + 1, x2)

\* for (x = seg.x1; x <= seg.x2; x++) if (!visited) { visited = true; emplace_back }
RECURSIVE MarkRun(_, _, _, _)
MarkRun(vis, y, x, x2) ==
    IF x > x2 THEN <<>>
    ELSE IF <<x, y>> \in vis THEN MarkRun(vis, y, x + 1, x2)
         ELSE <<(<<x, y>>)>> \o MarkRun(vis, y, x + 1, x2)

(***************************************************************************)
(* ExtractBoundary: region points with an 8-neighbour that is outside the  *)
(* raster or background, in region order.                                  *)
(***************************************************************************)
\* mutant: only the four edge neighbours are examined
IsBoundaryPoint4(img, p) ==
    \E d \in {<<-1, 0>>, <<1, 0>>, <<0, -1>>, <<0, 1>>} :
        LET nx == p[1] + d[1]
            ny == p[2] + d[2]
        IN \/ nx < 0 \/ nx >= img.width \/ ny < 0 \/ ny >= img.height
           \/ img.pixels[<<nx, ny>>] = 0

IsBoundaryPoint(img, p) ==
    \E dy \in -1 .. 1 : \E dx \in -1 .. 1 :
        /\ ~(dx = 0 /\ dy = 0)
        /\ LET nx == p[1] + dx
               ny == p[2] + dy
           IN \/ nx < 0 \/ nx >= img.width \/ ny < 0 \/ ny >= img.height
              \/ img.pixels[<<nx, ny>>] = 0

ExtractBoundaryPoints(img, reg) ==
    SelectSeq(reg, LAMBDA p : IsBoundaryPoint(img, p))

(***************************************************************************)
(* SortBoundaryPointsRadix: std::sort by quadrant about the truncated      *)
(* centroid, then by cross product.  Points on one ray from the centroid   *)
(* compare equivalent; std::sort leaves their order unspecified, and here  *)
(* each point is inserted after the points it is equivalent to.            *)
(***************************************************************************)
RECURSIVE SumSeq(_, _)
SumSeq(s, k) == IF s = <<>> THEN 0 ELSE Head(s)[k] + SumSeq(Tail(s), k)

Quadrant(dx, dy) ==
    IF dx >= 0 THEN (IF dy >= 0 THEN 0 ELSE 3) ELSE (IF dy >= 0 THEN 1 ELSE 2)

BoundaryLess(cx, cy, a, b) ==
    LET dxa == a[1] - cx
        dya == a[2] - cy
        dxb == b[1] - cx
        dyb == b[2] - cy
        qa == Quadrant(dxa, dya)
        qb == Quadrant(dxb, dyb)
    IN IF qa # qb THEN qa < qb ELSE dxa * dyb > dya * dxb

\* p goes in front of the first element it compares less than
InsertSorted(cx, cy, s, p) ==
    LET before == {i \in DOMAIN s : BoundaryLess(cx, cy, p, s[i])}
        at == IF before = {} THEN Len(s) + 1
              ELSE CHOOSE i \in before : \A j \in before : i <= j
    IN SubSeq(s, 1, at - 1) \o <<p>> \o SubSeq(s, at, Len(s))

\* done with rest[lo .. hi] inserted one after the other, in that order
RECURSIVE SortFrom(_, _, _, _, _, _)
SortFrom(cx, cy, done, rest, lo, hi) ==
    IF lo > hi THEN done
    ELSE IF lo = hi
    THEN Let(done, LAMBDA sorted : InsertSorted(cx, cy, sorted, rest[lo]))
    ELSE Let(SortFrom(cx, cy, done, rest, lo, (lo + hi) \div 2),
             LAMBDA half : SortFrom(cx, cy, half, rest, (lo + hi) \div 2 + 1, hi))

SortBoundaryPointsRadix(boundary) ==
    IF Len(boundary) < 3 THEN boundary
    ELSE LET cx == SumSeq(boundary, 1) \div Len(boundary)
             cy == SumSeq(boundary, 2) \div Len(boundary)
         IN SortFrom(cx, cy, <<>>, boundary, 1, Len(boundary))

ExtractBoundary(img, reg) ==
    LET boundary == ExtractBoundaryPoints(img, reg)
    IN IF Len(boundary) > 0 THEN SortBoundaryPointsRadix(boundary) ELSE boundary

(***************************************************************************)
(* FindContours, one step per iteration of its loops.                      *)
(***************************************************************************)
PointAt(img, c) == <<c % img.width, c \div img.width>>

IsSeed(img, vis, c) ==
    /\ c < img.width * img.height
    /\ Fillable(img, vis, PointAt(img, c)[1], PointAt(img, c)[2])

\* The scan reaches the next unvisited foreground pixel and ScanlineFillContour
\* pushes the initial horizontal segment.
StartFill ==
    /\ fpc = "scan"
    /\ \E c \in cursor .. image.width * image.height - 1 :
        /\ IsSeed(image, visited, c)
        /\ \A d \in cursor .. c - 1 : ~IsSeed(image, visited, d)
        /\ LET startX == PointAt(image, c)[1]
               startY == PointAt(image, c)[2]
               x1 == ExtendLeft(image, visited, startX, startY)
               x2 == ExtendRight(image, visited, startX, startY)
           IN /\ stack' = <<ScanlineSegment(startY, x1, x2, -1)>>
              /\ seed' = <<startX, startY>>
              /\ cursor' = c
    /\ region' = <<>>
    /\ visited0' = visited
    /\ pops' = 0
    /\ fpc' = "fill"
    /\ UNCHANGED <<image, visited, contours, lastBoundary, regions, finder>>
    /\ fillFrame

\* One iteration of while (!stack.empty()).
PopSegment ==
    /\ fpc = "fill"
    /\ stack # <<>>
    /\ LET seg == stack[Len(stack)]
           marked == MarkRun(visited, seg.y, seg.x1, seg.x2)
           vis1 == visited \cup Range(marked)
       IN /\ visited' = vis1
          /\ region' = region \o marked
          /\ stack' = SubSeq(stack, 1, Len(stack) - 1) \o PushedBy(image, vis1, seg)
    /\ pops' = pops + 1
    /\ UNCHANGED <<image, cursor, seed, visited0, contours, lastBoundary, regions,
                   finder, fpc>>
    /\ fillFrame

\* mutant: RectangleDetector applies the minimum of ObloidDetector
MinRegionOfObloidEverywhere(f) == ObloidMinRegionSize

\* region.size() >= 50 in RectangleDetector, >= 20 in ObloidDetector
MinRegionOf(f) == IF f = "ObloidDetector" THEN ObloidMinRegionSize ELSE MinRegionSize

\* ExtractBoundary of the detector: only RectangleDetector sorts the points
BoundaryOf(f, img, reg) ==
    IF f = "ObloidDetector" THEN ExtractBoundaryPoints(img, reg)
    ELSE ExtractBoundary(img, reg)

\* The fill returned: the size tests of FindContours and ExtractBoundary.
FinishRegion ==
    /\ fpc = "fill"
    /\ stack = <<>>
    /\ IF Len(region) >= MinRegionOf(finder)
       THEN /\ lastBoundary' = BoundaryOf(finder, image, region)
            /\ contours' = IF Len(lastBoundary') >= MinBoundarySize
                           THEN Append(contours, lastBoundary') ELSE contours
       ELSE UNCHANGED <<lastBoundary, contours>>
    /\ regions' = Append(regions, region)
    /\ cursor' = cursor + 1
    /\ fpc' = "scan"
    /\ UNCHANGED <<image, visited, stack, region, seed, visited0, pops, finder>>
    /\ fillFrame

\* The scan runs off the end of the raster: return contours.
FinishScan ==
    /\ fpc = "scan"
    /\ \A c \in cursor .. image.width * image.height - 1 : ~IsSeed(image, visited, c)
    /\ cursor' = image.width * image.height
    /\ fpc' = "done"
    /\ UNCHANGED <<image, visited, stack, region, seed, visited0, pops, contours,
                   lastBoundary, regions, finder>>
    /\ fillFrame

InitFill ==
    /\ image \in {Image(Side, Side, f) : f \in [PointsOf(Side, Side) -> {0, Foreground}]}
    /\ visited = {}
    /\ cursor = 0
    /\ stack = <<>>
    /\ region = <<>>
    /\ seed = <<0, 0>>
    /\ visited0 = {}
    /\ pops = 0
    /\ contours = <<>>
    /\ lastBoundary = <<>>
    /\ regions = <<>>
    /\ finder \in {"RectangleDetector", "ObloidDetector"}
    /\ fpc = "scan"
    /\ IdleDetect
    /\ IdleDedup
    /\ IdleObloid
    /\ IdlePipeline
    /\ IdleConfig
    /\ IdleApprox

NextFill == StartFill \/ PopSegment \/ FinishRegion \/ FinishScan

SpecFill == InitFill /\ [][NextFill]_vars

(***************************************************************************)
(* RemoveDuplicateRectangles.  A rectangle is                              *)
(* [center |-> <<x, y>>, width |-> w, height |-> h]; the candidates        *)
(* ProcessContoursAtScale appends have width > 0 and height > 0.           *)
(***************************************************************************)
RectArea(r) == r.width * r.height

\* std::sort by a.width * a.height > b.width * b.height.  For the short lists
\* of the model std::sort is its insertion sort, which keeps the input order
\* of candidates of equal area.
RECURSIVE InsertByArea(_, _)
InsertByArea(s, r) ==
    IF s = <<>> THEN <<r>>
    ELSE IF RectArea(Head(s)) < RectArea(r) THEN <<r>> \o s
         ELSE <<Head(s)>> \o InsertByArea(Tail(s), r)

\* mutant: the candidates are left in the order they were appended in
SortByAreaOmitted(done, rest) == done \o rest

RECURSIVE SortByArea(_, _)
SortByArea(done, rest) ==
    IF rest = <<>> THEN done
    ELSE SortByArea(InsertByArea(done, Head(rest)), Tail(rest))

\* centerDist < avgSize * 0.25, with centerDist = sqrt(dx^2 + dy^2) and
\* avgSize = (wi + hi + wj + hj) / 4.0:  sqrt(d2) < sum / 16
CentersClose(a, b) ==
    LET dx == a.center[1] - b.center[1]
        dy == a.center[2] - b.center[2]
        sum == a.width + a.height + b.width + b.height
    IN sum > 0 /\ 256 * (dx * dx + dy * dy) < sum * sum

\* mutant: only candidates of nearly equal area count as similar
SimilarSizeStrict(a, b) ==
    LET lo == Min2(RectArea(a), RectArea(b))
        hi == Max2(RectArea(a), RectArea(b))
    IN hi > 0 /\ 4 * lo > 3 * hi

\* sizeRatio = min(areas) / max(areas) > 0.5
SimilarSize(a, b) ==
    LET lo == Min2(RectArea(a), RectArea(b))
        hi == Max2(RectArea(a), RectArea(b))
    IN hi > 0 /\ 2 * lo > hi

MarksDuplicate(a, b) == CentersClose(a, b) /\ SimilarSize(a, b)

\* mutant: a candidate that is marked still marks its own duplicates
RECURSIVE MarkDuplicatesFromMarked(_, _, _)
MarkDuplicatesFromMarked(s, i, toRemove) ==
    IF i > Len(s) THEN toRemove
    ELSE MarkDuplicatesFromMarked(s, i + 1,
            toRemove \cup {j \in i + 1 .. Len(s) : MarksDuplicate(s[i], s[j])})

\* the i / j loops that fill toRemove
RECURSIVE MarkDuplicates(_, _, _)
MarkDuplicates(s, i, toRemove) ==
    IF i > Len(s) THEN toRemove
    ELSE IF i \in toRemove THEN MarkDuplicates(s, i + 1, toRemove)
         ELSE MarkDuplicates(s, i + 1,
                toRemove \cup {j \in i + 1 .. Len(s) : MarksDuplicate(s[i], s[j])})

\* erase(remove_if(...)): the unmarked candidates, in order
EraseMarked(s, toRemove) ==
    LET idx == SelectSeq([i \in 1 .. Len(s) |-> i], LAMBDA i : i \notin toRemove)
    IN [k \in 1 .. Len(idx) |-> s[idx[k]]]

RemoveDuplicateRectangles(list) ==
    IF Len(list) <= 1 THEN list
    ELSE LET sorted == SortByArea(<<>>, list)
         IN EraseMarked(sorted, MarkDuplicates(sorted, 1, {}))

(***************************************************************************)
(* DetectRectangles.  In this specification a contour is described by what *)
(* the const classifier computes from it: IsRectangle's verdict and the    *)
(* rectangle CreateRectangle returns.  The three preprocessing variants    *)
(* each yield the contour list of the scene.  Contours are numbered from 1 *)
(* (index i of the model is contours[i - 1] of the code).                  *)
(***************************************************************************)
SceneRectangle(i) ==
    [center |-> <<20 * i, 10>>, width |-> 4 + (i % 3), height |-> 4]

SceneContour(i, accepted) ==
    IF i \in accepted
    THEN [isRectangle |-> TRUE, rect |-> SceneRectangle(i)]
    ELSE [isRectangle |-> FALSE, rect |-> [center |-> <<0, 0>>, width |-> 0, height |-> 0]]

\* scenes have one contour less than the threshold of the parallel branch,
\* exactly as many, or one more
ContourCounts == ParallelThreshold - 1 .. ParallelThreshold + 1

\* the contours of a scene that may be rectangles: the first ones and the last
RectanglePositions(n) == (1 .. MaxAccepted - 1) \cup {n}

Scenes ==
    {[i \in 1 .. n |-> SceneContour(i, acc)] :
        <<n, acc>> \in {na \in ContourCounts \X SUBSET (1 .. ParallelThreshold + 1) :
                          na[2] \subseteq RectanglePositions(na[1])}}

\* if (IsRectangle(contours[i])) { rect = CreateRectangle(contours[i]);
\*   if (rect.width > 0 && rect.height > 0) ... }
Accepts(c) == c.isRectangle /\ c.rect.width > 0 /\ c.rect.height > 0

AcceptedIndices(cs) == {i \in 1 .. Len(cs) : Accepts(cs[i])}

\* the sequential branch: the accepted rectangles in contour order
SequentialResult(cs) ==
    LET idx == SelectSeq([i \in 1 .. Len(cs) |-> i], LAMBDA i : Accepts(cs[i]))
    IN [k \in 1 .. Len(idx) |-> cs[idx[k]].rect]

\* contours.size() > 10
TakesParallelPath(cs) == Len(cs) > ParallelThreshold

\* mutant: the parallel branch is taken from 10 contours on
TakesParallelPathFromTen(cs) == Len(cs) >= ParallelThreshold

WordOf(i) == (i - 1) \div BitsPerWord

DefaultRectangle == [center |-> <<0, 0>>, width |-> 0, height |-> 0]

\* mutant: deduplication starts before the Hough strategy has run
PhaseAfterEarlyDedup(s) == IF s + 1 < NumStrategies THEN "process" ELSE "dedup"

\* DetectRectangles runs strategies 1 .. 4 in order, then deduplicates
PhaseAfter(s) == IF s < NumStrategies THEN "process" ELSE "dedup"

WorkersIdle == thr = {}

\* ProcessContoursAtScale, sequential branch (strategies 1 .. 3)
ProcessSequential ==
    /\ dpc = "process"
    /\ strategy < NumStrategies
    /\ ~TakesParallelPath(scene)
    /\ rectangles' = rectangles \o SequentialResult(scene)
    /\ dpc' = PhaseAfter(strategy)
    /\ strategy' = strategy + 1
    /\ UNCHANGED <<scene, tempRectangles, validRectangles, nextIter, thr,
                   results, dedupRuns>>
    /\ detFrame

\* ProcessContoursAtScale, parallel branch: the result vectors are sized and
\* the team starts
ForkParallel ==
    /\ dpc = "process"
    /\ strategy < NumStrategies
    /\ TakesParallelPath(scene)
    /\ tempRectangles' = [i \in 1 .. Len(scene) |-> DefaultRectangle]
    /\ validRectangles' = [w \in 0 .. WordOf(Len(scene)) |-> {}]
    /\ nextIter' = 1
    /\ thr' = {}
    /\ dpc' = "parallel"
    /\ UNCHANGED <<scene, strategy, rectangles, results, dedupRuns>>
    /\ detFrame

\* schedule(dynamic): a free thread of the team takes the next iteration and
\* classifies its contour
WorkerTake ==
    /\ dpc = "parallel"
    /\ Cardinality(thr) < NumThreads
    /\ nextIter <= Len(scene)
    /\ nextIter' = nextIter + 1
    /\ thr' = IF Accepts(scene[nextIter])
              THEN thr \cup {[pc |-> "slot", i |-> nextIter, word |-> {}]}
              ELSE thr
    /\ UNCHANGED <<scene, dpc, strategy, rectangles, tempRectangles,
                   validRectangles, results, dedupRuns>>
    /\ detFrame

\* tempRectangles[i] = rect; then validRectangles[i] = true, which on the
\* packed std::vector<bool> reads the word that holds bit i ...
WorkerWriteSlot(w) ==
    /\ dpc = "parallel"
    /\ w.pc = "slot"
    /\ tempRectangles' = [tempRectangles EXCEPT ![w.i] = scene[w.i].rect]
    /\ thr' = (thr \ {w}) \cup
                {[pc |-> "store", i |-> w.i, word |-> validRectangles[WordOf(w.i)]]}
    /\ UNCHANGED <<scene, dpc, strategy, rectangles, validRectangles, nextIter,
                   results, dedupRuns>>
    /\ detFrame

\* ... and writes the word back with bit i set
WorkerStoreFlag(w) ==
    /\ dpc = "parallel"
    /\ w.pc = "store"
    /\ validRectangles' = [validRectangles EXCEPT ![WordOf(w.i)] = w.word \cup {w.i}]
    /\ thr' = thr \ {w}
    /\ UNCHANGED <<scene, dpc, strategy, rectangles, tempRectangles, nextIter,
                   results, dedupRuns>>
    /\ detFrame

\* the implicit barrier at the end of the parallel loop
Join ==
    /\ dpc = "parallel"
    /\ nextIter > Len(scene)
    /\ WorkersIdle
    /\ dpc' = "collect"
    /\ UNCHANGED <<scene, strategy, rectangles, tempRectangles, validRectangles,
                   nextIter, thr, results, dedupRuns>>
    /\ detFrame

FlagSet(i) == i \in validRectangles[WordOf(i)]

\* the compaction loop: for i: if (validRectangles[i]) push_back(tempRectangles[i])
Collect ==
    /\ dpc = "collect"
    /\ LET idx == SelectSeq([i \in 1 .. Len(scene) |-> i], LAMBDA i : FlagSet(i))
       IN rectangles' = rectangles \o [k \in 1 .. Len(idx) |-> tempRectangles[idx[k]]]
    /\ dpc' = PhaseAfter(strategy)
    /\ strategy' = strategy + 1
    /\ UNCHANGED <<scene, tempRectangles, validRectangles, nextIter, thr,
                   results, dedupRuns>>
    /\ detFrame

\* strategy 4: DetectRectanglesUsingHoughLines returns an empty vector
HoughStrategy ==
    /\ dpc = "process"
    /\ strategy = NumStrategies
    /\ rectangles' = rectangles \o <<>>
    /\ dpc' = PhaseAfter(strategy)
    /\ strategy' = strategy + 1
    /\ UNCHANGED <<scene, tempRectangles, validRectangles, nextIter, thr,
                   results, dedupRuns>>
    /\ detFrame

RemoveDuplicates ==
    /\ dpc = "dedup"
    /\ rectangles' = RemoveDuplicateRectangles(rectangles)
    /\ dedupRuns' = dedupRuns + 1
    /\ dpc' = "return"
    /\ UNCHANGED <<scene, strategy, tempRectangles, validRectangles, nextIter,
                   thr, results>>
    /\ detFrame

Return ==
    /\ dpc = "return"
    /\ results' = Append(results, rectangles)
    /\ dpc' = "done"
    /\ UNCHANGED <<scene, strategy, rectangles, tempRectangles, validRectangles,
                   nextIter, thr, dedupRuns>>
    /\ detFrame

\* the caller calls DetectRectangles again, same detector, same image
CallAgain ==
    /\ dpc = "done"
    /\ Len(results) < MaxCalls
    /\ rectangles' = <<>>
    /\ strategy' = 1
    /\ dedupRuns' = 0
    /\ dpc' = "process"
    /\ UNCHANGED <<scene, tempRectangles, validRectangles, nextIter, thr, results>>
    /\ detFrame

InitDetect ==
    /\ scene \in Scenes
    /\ dpc = "process"
    /\ strategy = 1
    /\ rectangles = <<>>
    /\ tempRectangles = <<>>
    /\ validRectangles = <<>>
    /\ nextIter = 0
    /\ thr = {}
    /\ results = <<>>
    /\ dedupRuns = 0
    /\ IdleFill
    /\ IdleDedup
    /\ IdleObloid
    /\ IdlePipeline
    /\ IdleConfig
    /\ IdleApprox

NextDetect ==
    \/ ProcessSequential
    \/ ForkParallel
    \/ WorkerTake
    \/ \E w \in thr : WorkerWriteSlot(w)
    \/ \E w \in thr : WorkerStoreFlag(w)
    \/ Join
    \/ Collect
    \/ HoughStrategy
    \/ RemoveDuplicates
    \/ Return
    \/ CallAgain

SpecDetect == InitDetect /\ [][NextDetect]_vars

(***************************************************************************)
(* C7.  In the parallel fan-out no two workers access the same storage     *)
(* location with one of them writing, so once the workers have joined the  *)
(* flag of contour i is set exactly when contour i was accepted.           *)
(***************************************************************************)
FlagAccessConflict ==
    \E w1 \in thr : \E w2 \in thr \ {w1} :
        /\ w1.pc = "store"
        /\ w2.pc \in {"slot", "store"}
        /\ WordOf(w1.i) = WordOf(w2.i)

FlagsExact ==
    \A i \in 1 .. Len(scene) : FlagSet(i) <=> i \in AcceptedIndices(scene)

C7_NoSharedWriteFlagsExact ==
    /\ ~FlagAccessConflict
    /\ dpc = "collect" => FlagsExact

(***************************************************************************)
(* C8.  The parallel branch appends what the sequential loop would append, *)
(* in the same order, and is taken only above 10 contours.                 *)
(***************************************************************************)
RECURSIVE Repeat(_, _)
Repeat(s, k) == IF k <= 0 THEN <<>> ELSE s \o Repeat(s, k - 1)

C8_ParallelEqualsSequential ==
    /\ dpc \in {"parallel", "collect"} => Len(scene) > ParallelThreshold
    /\ dpc \in {"process", "dedup"} =>
         rectangles = Repeat(SequentialResult(scene),
                             Min2(strategy - 1, NumStrategies - 1))

(***************************************************************************)
(* C1.  Two calls of DetectRectangles on the same detector with the same   *)
(* image return identical lists.                                           *)
(***************************************************************************)
C1_RepeatedCallsAgree ==
    \A a \in DOMAIN results : \A b \in DOMAIN results : results[a] = results[b]

(***************************************************************************)
(* C9.  Within one call the deduplication pass runs exactly once, only     *)
(* after all four strategies have appended their candidates and every      *)
(* worker has joined, and nothing is appended once it has started.         *)
(***************************************************************************)
DedupStep == dedupRuns' = dedupRuns + 1

C9_DedupOnceAfterStrategies ==
    /\ [][DedupStep => /\ dedupRuns = 0
                       /\ strategy = NumStrategies + 1
                       /\ thr = {}
                       /\ dpc # "parallel"]_vars
    /\ [][dedupRuns >= 1 /\ dedupRuns' >= 1 =>
            Len(rectangles') <= Len(rectangles)]_vars
    /\ [](dpc \in {"return", "done"} => dedupRuns = 1)

\* a call that took the parallel branch has deduplicated its candidates
C9_Witness ==
    /\ dpc = "return"
    /\ dedupRuns = 1
    /\ Len(scene) > ParallelThreshold
    /\ Len(rectangles) = 2

(***************************************************************************)
(* RemoveDuplicateRectangles as a function of its argument.                *)
(***************************************************************************)
CandidateRectangles ==
    {[center |-> <<x, y>>, width |-> w, height |-> 8] :
        x \in 0 .. MaxCenter, y \in 0 .. 1, w \in {8, 12, 16}}

RECURSIVE ListsUpTo(_, _)
ListsUpTo(S, n) ==
    IF n = 0 THEN {<<>>}
    ELSE LET shorter == ListsUpTo(S, n - 1)
         IN shorter \cup {Append(l, e) : l \in {m \in shorter : Len(m) = n - 1}, e \in S}

CallRemoveDuplicates ==
    /\ rpc = "call"
    /\ deduped' = RemoveDuplicateRectangles(candidates)
    /\ rpc' = "done"
    /\ UNCHANGED candidates
    /\ dupFrame

InitDedup ==
    /\ candidates \in ListsUpTo(CandidateRectangles, MaxRects)
    /\ deduped = <<>>
    /\ rpc = "call"
    /\ IdleFill
    /\ IdleDetect
    /\ IdleObloid
    /\ IdlePipeline
    /\ IdleConfig
    /\ IdleApprox

NextDedup == CallRemoveDuplicates

SpecDedup == InitDedup /\ [][NextDedup]_vars

(***************************************************************************)
(* C2.  After RemoveDuplicateRectangles no two remaining rectangles are    *)
(* duplicates: center distance below 0.25 x the average of the four side   *)
(* lengths and smaller area over larger area above 0.5.  Two such          *)
(* candidates collapse to one.                                             *)
(***************************************************************************)
DistanceSquared(a, b) ==
    (a.center[1] - b.center[1]) * (a.center[1] - b.center[1])
    + (a.center[2] - b.center[2]) * (a.center[2] - b.center[2])

\* d < 0.25 * (sides / 4)  iff  16 d < sides  iff  256 d^2 < sides^2
AreDuplicates(a, b) ==
    LET sides == a.width + a.height + b.width + b.height
        areaA == a.width * a.height
        areaB == b.width * b.height
    IN /\ 256 * DistanceSquared(a, b) < sides * sides
       /\ IF areaA <= areaB THEN 2 * areaA > areaB ELSE 2 * areaB > areaA

C2_NoDuplicatesRemain ==
    rpc = "done" =>
        /\ \A i \in DOMAIN deduped : \A j \in DOMAIN deduped :
              i < j => ~AreDuplicates(deduped[i], deduped[j])
        /\ (Len(candidates) = 2 /\ AreDuplicates(candidates[1], candidates[2]))
              => Len(deduped) = 1

\* two distinct duplicate candidates went in and one came out
C2_Witness ==
    /\ rpc = "done"
    /\ Len(candidates) = 2
    /\ candidates[1] # candidates[2]
    /\ AreDuplicates(candidates[1], candidates[2])
    /\ Len(deduped) = 1

(***************************************************************************)
(* ObloidDetector.  Distances are doubles in the code; here they are       *)
(* integers counting thousandths, thresholds are thousandths as well, and  *)
(* a confidence is the fraction num / den.                                 *)
(***************************************************************************)
\* std::sqrt(dx * dx + dy * dy), in thousandths
DistanceMilli(p, c) ==
    LET dx == p[1] - c[1]
        dy == p[2] - c[2]
    IN IsqrtBetween((dx * dx + dy * dy) * 1000000, 0, 46340)

ObloidCalculateCentroid(contour) ==
    IF contour = <<>> THEN <<0, 0>>
    ELSE <<RoundDiv(SumSeq(contour, 1), Len(contour)),
           RoundDiv(SumSeq(contour, 2), Len(contour))>>

EstimateRadius(contour, center) ==
    IF contour = <<>> THEN 0
    ELSE RoundDiv(SumInts([i \in DOMAIN contour |-> DistanceMilli(contour[i], center)]),
                  1000 * Len(contour))

\* sum over the contour of |distance - radius|, in thousandths; the code
\* divides it by contour.size()
TotalErrorMilli(contour, center, radius) ==
    SumInts([i \in DOMAIN contour |->
                Abs(DistanceMilli(contour[i], center) - 1000 * radius)])

\* mutant: the error term is added instead of subtracted
ConfidenceOfErrorAdded(totalError, n, radius) ==
    LET den == 1000 * n * Max2(1, radius)
    IN [num |-> Max2(0, den + totalError), den |-> den]

\* std::max(0.0, 1.0 - fitError / radius) with fitError = totalError / n
ConfidenceOf(totalError, n, radius) ==
    LET den == 1000 * n * Max2(1, radius)
    IN [num |-> Max2(0, den - totalError), den |-> den]

\* the sums FitCircleToContour accumulates over the contour
ContourSums(contour) ==
    LET X(i) == contour[i][1]
        Y(i) == contour[i][2]
        S(F(_)) == SumInts([i \in DOMAIN contour |-> F(i)])
    IN [n |-> Len(contour),
        sumX |-> S(X),
        sumY |-> S(Y),
        sumX2 |-> S(LAMBDA i : X(i) * X(i)),
        sumY2 |-> S(LAMBDA i : Y(i) * Y(i)),
        sumXY |-> S(LAMBDA i : X(i) * Y(i)),
        sumX3 |-> S(LAMBDA i : X(i) * X(i) * X(i)),
        sumY3 |-> S(LAMBDA i : Y(i) * Y(i) * Y(i)),
        sumX2Y |-> S(LAMBDA i : X(i) * X(i) * Y(i)),
        sumXY2 |-> S(LAMBDA i : X(i) * Y(i) * Y(i))]

\* the coefficients A .. E of the normal equations
FitCoefficients(s) ==
    [A |-> 2 * (s.n * s.sumX2 - s.sumX * s.sumX),
     B |-> 2 * (s.n * s.sumXY - s.sumX * s.sumY),
     C |-> 2 * (s.n * s.sumY2 - s.sumY * s.sumY),
     D |-> s.n * (s.sumX3 + s.sumXY2) - s.sumX * (s.sumX2 + s.sumY2),
     E |-> s.n * (s.sumY3 + s.sumX2Y) - s.sumY * (s.sumX2 + s.sumY2)]

\* the centre for determinant det; the centroid when the system is singular
FitCenter(contour, k, det) ==
    IF det = 0 THEN ObloidCalculateCentroid(contour)
    ELSE <<RoundDiv(k.D * k.C - k.E * k.B, det), RoundDiv(k.A * k.E - k.B * k.D, det)>>

FitResult(contour, center, radius) ==
    [center |-> center, radius |-> radius,
     confidence |-> ConfidenceOf(TotalErrorMilli(contour, center, radius),
                                 Len(contour), radius)]

\* least squares (Kasa) circle fit; the sums are exact integers in the code
FitCircleToContour(contour) ==
    IF Len(contour) < 3
    THEN [center |-> <<0, 0>>, radius |-> 0, confidence |-> [num |-> 0, den |-> 1]]
    ELSE Let(FitCoefficients(ContourSums(contour)), LAMBDA k :
         Let(FitCenter(contour, k, k.A * k.C - k.B * k.B), LAMBDA center :
             FitResult(contour, center, EstimateRadius(contour, center))))

\* tolerance = max(3.0, radius * 0.15), in thousandths
IsInlier(p, center, radius) ==
    Abs(DistanceMilli(p, center) - 1000 * radius) <= Max2(3000, 150 * radius)

ValidateCircleGeometry(cfg, contour, center, radius) ==
    LET inliers == Cardinality({i \in DOMAIN contour : IsInlier(contour[i], center, radius)})
    IN /\ contour # <<>>
       /\ radius > 0
       /\ ~(radius < cfg.minRadius \/ radius > cfg.maxRadius)
       /\ 10 * inliers >= 7 * Len(contour)

\* CalculateArea: the number of points
ObloidCalculateArea(contour) == IF Len(contour) < 3 THEN 0 ELSE Len(contour)

\* CalculatePerimeter is 2 pi sqrt(n / pi), so its square is 4 pi n; this is
\* that square divided by pi
PerimeterSquaredOverPi(contour) == IF Len(contour) < 2 THEN 0 ELSE 4 * Len(contour)

\* 4 pi area / perimeter^2 >= threshold, both sides cleared of pi;
\* CalculateCircularity returns 0.0 when the perimeter vanishes
CircularityAtLeast(contour, threshold) ==
    IF Len(contour) < 3 THEN 0 >= threshold
    ELSE 1000 * 4 * ObloidCalculateArea(contour)
            >= threshold * PerimeterSquaredOverPi(contour)

ConfidenceAtLeast(confidence, threshold) ==
    1000 * confidence.num >= threshold * confidence.den

\* IsObloid after the fit: the confidence is computed again from the fit error
ObloidOfFit(cfg, contour, fit) ==
    IF Len(contour) < MinBoundarySize THEN [ok |-> FALSE, obloid |-> fit]
    ELSE IF ~CircularityAtLeast(contour, cfg.circularityThreshold)
    THEN [ok |-> FALSE, obloid |-> fit]
    ELSE IF ~ValidateCircleGeometry(cfg, contour, fit.center, fit.radius)
    THEN [ok |-> FALSE, obloid |-> fit]
    ELSE Let(ConfidenceOf(TotalErrorMilli(contour, fit.center, fit.radius),
                          Len(contour), fit.radius), LAMBDA conf :
             [ok |-> ConfidenceAtLeast(conf, cfg.confidenceThreshold),
              obloid |-> [fit EXCEPT !.confidence = conf]])

\* IsObloid: [ok, obloid]; the caller reads obloid only when ok
IsObloid(cfg, contour) == ObloidOfFit(cfg, contour, FitCircleToContour(contour))

\* the condition under which DetectObloids keeps the obloid IsObloid gave
KeptByDetectObloids(cfg, r) ==
    /\ r.ok
    /\ r.obloid.radius >= cfg.minRadius
    /\ r.obloid.radius <= cfg.maxRadius
    /\ ConfidenceAtLeast(r.obloid.confidence, cfg.confidenceThreshold)

ObloidAccepted(cfg, contour) == KeptByDetectObloids(cfg, IsObloid(cfg, contour))

ObloidAcceptedIndices(cfg, cs) == {i \in DOMAIN cs : ObloidAccepted(cfg, cs[i])}

\* the obloids of the indices kept, in index order
RECURSIVE ObloidsOf(_, _, _, _)
ObloidsOf(cfg, cs, kept, i) ==
    IF i > Len(cs) THEN <<>>
    ELSE (IF i \in kept THEN <<IsObloid(cfg, cs[i]).obloid>> ELSE <<>>)
         \o ObloidsOf(cfg, cs, kept, i + 1)

\* std::sort by radius, larger first
RECURSIVE InsertByRadius(_, _)
InsertByRadius(s, o) ==
    IF s = <<>> THEN <<o>>
    ELSE IF o.radius > s[Len(s)].radius
         THEN Append(InsertByRadius(SubSeq(s, 1, Len(s) - 1), o), s[Len(s)])
         ELSE Append(s, o)

RECURSIVE SortByRadius(_, _)
SortByRadius(done, rest) ==
    IF rest = <<>> THEN done
    ELSE SortByRadius(InsertByRadius(done, Head(rest)), Tail(rest))

\* centerDist < radiusSum * 0.7
ObloidsOverlap(a, b) ==
    LET dx == a.center[1] - b.center[1]
        dy == a.center[2] - b.center[2]
        radiusSum == a.radius + b.radius
    IN radiusSum > 0 /\ 100 * (dx * dx + dy * dy) < 49 * radiusSum * radiusSum

RECURSIVE MarkOverlapping(_, _, _)
MarkOverlapping(s, i, toRemove) ==
    IF i > Len(s) THEN toRemove
    ELSE IF i \in toRemove THEN MarkOverlapping(s, i + 1, toRemove)
    ELSE MarkOverlapping(s, i + 1,
            toRemove \cup {j \in i + 1 .. Len(s) :
                             j \notin toRemove /\ ObloidsOverlap(s[i], s[j])})

RemoveDuplicateObloids(list) ==
    IF Len(list) <= 1 THEN list
    ELSE Let(SortByRadius(<<>>, list), LAMBDA sorted :
             EraseMarked(sorted, MarkOverlapping(sorted, 1, {})))

\* mutant: DetectSpheres does not pass its maximum radius on
ObloidConfigKeepsDefaultMax(cfg) == [cfg EXCEPT !.maxRadius = 100]

\* DetectSpheres configures a fresh ObloidDetector with its own parameters
ObloidConfigFor(cfg) ==
    [minRadius |-> cfg.minRadius, maxRadius |-> cfg.maxRadius,
     circularityThreshold |-> cfg.circularityThreshold,
     confidenceThreshold |-> cfg.confidenceThreshold]

ToSphere(obloid) ==
    [center |-> obloid.center, radius |-> obloid.radius,
     confidence |-> obloid.confidence]

\* the parameters DetectObloids runs with
RunningConfig == IF oapi = "DetectSpheres" THEN ObloidConfigFor(oconfig) ELSE oconfig

(***************************************************************************)
(* Scenes for the obloid specification: thresholded rasters holding small  *)
(* discs, a rounded bar and one-pixel lines, each region apart from the    *)
(* others.                                                                 *)
(***************************************************************************)
DiscRegion(c, r2) ==
    {p \in (c[1] - 4 .. c[1] + 4) \X (c[2] - 4 .. c[2] + 4) :
        (p[1] - c[1]) * (p[1] - c[1]) + (p[2] - c[2]) * (p[2] - c[2]) <= r2}

BarRegion == ((2 .. 7) \X {1, 3}) \cup ((1 .. 8) \X {2})

LineRegion == (0 .. 23) \X {0}

ShapeRegions == {DiscRegion(<<4, 4>>, 10), DiscRegion(<<3, 3>>, 5), BarRegion}

Shift(S, d) == {<<p[1] + d[1], p[2] + d[2]>> : p \in S}

\* row-major order, the order in which the fill of a convex region visits it
RECURSIVE RowMajor(_)
RowMajor(S) ==
    IF S = {} THEN <<>>
    ELSE LET first == CHOOSE p \in S : \A q \in S :
                          p[2] < q[2] \/ (p[2] = q[2] /\ p[1] <= q[1])
         IN <<first>> \o RowMajor(S \ {first})

\* ObloidDetector::ExtractBoundary: region points with a neighbour, of the
\* eight, that is black or off the raster
ObloidExtractBoundary(regionSet) ==
    RowMajor({p \in regionSet :
                \E dx \in -1 .. 1 : \E dy \in -1 .. 1 :
                    <<p[1] + dx, p[2] + dy>> \notin regionSet})

\* where the region of contour i of n lies on the raster
RegionOffset(i, n) ==
    IF i < MaxAccepted THEN <<10 * (i - 1), 0>>
    ELSE IF i = n THEN <<0, 12 + 2 * n>>
    ELSE <<0, 10 + 2 * i>>

\* ObloidDetector::FindContours on such a raster
ObloidContour(regionSet) ==
    IF Cardinality(regionSet) >= ObloidMinRegionSize
    THEN LET boundary == ObloidExtractBoundary(regionSet)
         IN IF Len(boundary) >= MinBoundarySize THEN <<boundary>> ELSE <<>>
    ELSE <<>>

ObloidScenes ==
    UNION {
      {[i \in 1 .. n |->
           ObloidContour(Shift(IF i \in RectanglePositions(n) THEN pick[i]
                                                             ELSE LineRegion,
                               RegionOffset(i, n)))[1]] :
         pick \in [RectanglePositions(n) -> ShapeRegions]} :
      n \in ContourCounts}

ObloidConfigs ==
    [minRadius : {0, 3}, maxRadius : {2, 100},
     circularityThreshold : {800, 1100},
     confidenceThreshold : {-500, 0, 700, 870}]

\* DetectObloids, sequential branch
EvaluateSequential ==
    /\ opc = "evaluate"
    /\ ~(Len(ocontours) > ParallelThreshold)
    /\ obloids' = ObloidsOf(RunningConfig, ocontours,
                            ObloidAcceptedIndices(RunningConfig, ocontours), 1)
    /\ opc' = "dedup"
    /\ UNCHANGED <<oapi, oconfig, ocontours, circles>>
    /\ oblFrame

\* DetectObloids, parallel branch.  The workers set their bits of
\* validObloids without synchronisation, as those of validRectangles do,
\* so a store can erase flags stored since its word was loaded; the last
\* store always survives.
EvaluateParallel ==
    /\ opc = "evaluate"
    /\ Len(ocontours) > ParallelThreshold
    /\ \E accepted \in {ObloidAcceptedIndices(RunningConfig, ocontours)} :
         \E kept \in SUBSET accepted :
            /\ accepted # {} => kept # {}
            /\ obloids' = ObloidsOf(RunningConfig, ocontours, kept, 1)
    /\ opc' = "dedup"
    /\ UNCHANGED <<oapi, oconfig, ocontours, circles>>
    /\ oblFrame

DedupObloids ==
    /\ opc = "dedup"
    /\ obloids' = RemoveDuplicateObloids(obloids)
    /\ opc' = "return"
    /\ UNCHANGED <<oapi, oconfig, ocontours, circles>>
    /\ oblFrame

ReturnObloids ==
    /\ opc = "return"
    /\ oapi = "DetectObloids"
    /\ circles' = obloids
    /\ opc' = "done"
    /\ UNCHANGED <<oapi, oconfig, ocontours, obloids>>
    /\ oblFrame

\* DetectSpheres copies each obloid into a Sphere
ReturnSpheres ==
    /\ opc = "return"
    /\ oapi = "DetectSpheres"
    /\ circles' = [i \in DOMAIN obloids |-> ToSphere(obloids[i])]
    /\ opc' = "done"
    /\ UNCHANGED <<oapi, oconfig, ocontours, obloids>>
    /\ oblFrame

InitObloid ==
    /\ oapi \in {"DetectObloids", "DetectSpheres"}
    /\ oconfig \in ObloidConfigs
    /\ ocontours \in ObloidScenes
    /\ obloids = <<>>
    /\ circles = <<>>
    /\ opc = "evaluate"
    /\ IdleFill
    /\ IdleDetect
    /\ IdleDedup
    /\ IdlePipeline
    /\ IdleConfig
    /\ IdleApprox

NextObloid ==
    \/ EvaluateSequential
    \/ EvaluateParallel
    \/ DedupObloids
    \/ ReturnObloids
    \/ ReturnSpheres

SpecObloid == InitObloid /\ [][NextObloid]_vars

(***************************************************************************)
(* C4.  Every circle DetectObloids / DetectSpheres returns has a radius    *)
(* within [minRadius, maxRadius] and a confidence of at least              *)
(* confidenceThreshold, for the parameters the caller set, on the          *)
(* sequential and on the parallel path.                                    *)
(***************************************************************************)
C4_ReturnedCirclesWithinParameters ==
    opc = "done" =>
        \A i \in DOMAIN circles :
            /\ oconfig.minRadius <= circles[i].radius
            /\ circles[i].radius <= oconfig.maxRadius
            /\ 1000 * circles[i].confidence.num
                  >= oconfig.confidenceThreshold * circles[i].confidence.den

\* the parallel path returned a circle while the parameters turned another
\* fitted shape away
C4_Witness ==
    /\ opc = "done"
    /\ Len(ocontours) > ParallelThreshold
    /\ oconfig.minRadius = 3
    /\ oconfig.confidenceThreshold = 870
    /\ Len(circles) = 1
    /\ \E i \in DOMAIN ocontours :
          FitCircleToContour(ocontours[i]).radius < oconfig.minRadius

(***************************************************************************)
(* C5.  Every returned circle has a positive radius and a confidence in    *)
(* [0, 1], whatever the parameters, minRadius <= 0 and                     *)
(* confidenceThreshold <= 0 included.                                      *)
(***************************************************************************)
C5_PositiveRadiusUnitConfidence ==
    opc = "done" =>
        \A i \in DOMAIN circles :
            /\ circles[i].radius > 0
            /\ circles[i].confidence.den > 0
            /\ 0 <= circles[i].confidence.num
            /\ circles[i].confidence.num <= circles[i].confidence.den

\* parameters that exclude nothing let a poorly fitting shape through
C5_Witness ==
    /\ opc = "done"
    /\ oconfig.minRadius <= 0
    /\ oconfig.confidenceThreshold < 0
    /\ \E i \in DOMAIN circles :
          /\ circles[i].confidence.num > 0
          /\ 10 * circles[i].confidence.num < 7 * circles[i].confidence.den

(***************************************************************************)
(* Image preprocessing.  Kernel weights are doubles in the code; here they *)
(* are integers counting millionths.  Each routine comes with the set of   *)
(* pixel indices its loops read or write, so that an access outside the    *)
(* raster shows up as an index outside PointsOf(width, height).            *)
(***************************************************************************)
\* mutant: the upper clamp is missing
ClampIndexLowerOnly(i, n) == Max2(0, i)

\* std::max(0, std::min(i, n - 1))
ClampIndex(i, n) == Max2(0, Min2(i, n - 1))

\* a pixel read; a read outside the raster is recorded by the access sets
ReadPixel(img, x, y) ==
    IF <<x, y>> \in DOMAIN img.pixels THEN img.pixels[<<x, y>>] ELSE 0

\* kernelSize = 2 * ceil(3 * sigma) + 1, sigma given in tenths
KernelSize(sigma10) ==
    LET size == 2 * ((3 * sigma10 + 9) \div 10) + 1
    IN IF size % 2 = 0 THEN size + 1 ELSE size

\* exp(-(x * x) / (2 sigma^2)) normalised to sum 1, for the sigmas the
\* detectors pass: 0.5, 0.8 and 1.0
GaussianKernel(sigma10) ==
    CASE sigma10 = 5 -> <<264, 106451, 786571, 106451, 264>>
      [] sigma10 = 8 -> <<441, 21910, 228311, 498676, 228311, 21910, 441>>
      [] sigma10 = 10 -> <<4433, 54006, 242036, 399050, 242036, 54006, 4433>>

\* static_cast<int>(std::round(blurredValue)) of a non-negative sum
RoundMillionths(v) == (v + 500000) \div 1000000

BlurHorizontal(img, sigma10) ==
    LET kernel == GaussianKernel(sigma10)
        halfKernel == KernelSize(sigma10) \div 2
    IN Image(img.width, img.height,
             [p \in PointsOf(img.width, img.height) |->
                RoundMillionths(SumInts(
                  [k \in 1 .. KernelSize(sigma10) |->
                     ReadPixel(img, ClampIndex(p[1] + (k - 1) - halfKernel, img.width),
                               p[2]) * kernel[k]]))])

BlurVertical(img, sigma10) ==
    LET kernel == GaussianKernel(sigma10)
        halfKernel == KernelSize(sigma10) \div 2
    IN Image(img.width, img.height,
             [p \in PointsOf(img.width, img.height) |->
                RoundMillionths(SumInts(
                  [k \in 1 .. KernelSize(sigma10) |->
                     ReadPixel(img, p[1],
                               ClampIndex(p[2] + (k - 1) - halfKernel, img.height))
                       * kernel[k]]))])

ApplyGaussianBlur(img, sigma10) ==
    IF sigma10 <= 1 THEN img
    ELSE BlurVertical(BlurHorizontal(img, sigma10), sigma10)

ApplyGaussianBlurAccesses(img, sigma10) ==
    LET halfKernel == KernelSize(sigma10) \div 2
        taps == 0 .. KernelSize(sigma10) - 1
        all == PointsOf(img.width, img.height)
    IN IF sigma10 <= 1 THEN {}
       ELSE all
            \cup {<<ClampIndex(p[1] + k - halfKernel, img.width), p[2]>> :
                     p \in all, k \in taps}
            \cup {<<p[1], ClampIndex(p[2] + k - halfKernel, img.height)>> :
                     p \in all, k \in taps}

\* result.pixels[y][x] = (blurred.pixels[y][x] > level) ? 255 : 0
Threshold(img, level) ==
    Image(img.width, img.height,
          [p \in PointsOf(img.width, img.height) |->
              IF img.pixels[p] > level THEN Foreground ELSE 0])

\* RectangleDetector::PreprocessImage: blur with sigma 0.8, threshold 127
PreprocessImage(img) == Threshold(ApplyGaussianBlur(img, 8), 127)

PreprocessImageAccesses(img) ==
    ApplyGaussianBlurAccesses(img, 8) \cup PointsOf(img.width, img.height)

\* ObloidDetector::PreprocessImage: blur with sigma 1.0, threshold 127
ObloidPreprocessImage(img) == Threshold(ApplyGaussianBlur(img, 10), 127)

ObloidPreprocessImageAccesses(img) ==
    ApplyGaussianBlurAccesses(img, 10) \cup PointsOf(img.width, img.height)

\* mutant: the Sobel loops start at the first row and column
SobelPointsFromZero(img) == (0 .. img.width - 2) \X (0 .. img.height - 2)

\* for (y = 1; y < height - 1; ++y) for (x = 1; x < width - 1; ++x)
SobelPoints(img) == (1 .. img.width - 2) \X (1 .. img.height - 2)

SobelMagnitude(img, x, y) ==
    LET P(dx, dy) == ReadPixel(img, x + dx, y + dy)
        gx == -P(-1, -1) + P(1, -1) - 2 * P(-1, 0) + 2 * P(1, 0) - P(-1, 1) + P(1, 1)
        gy == -P(-1, -1) - 2 * P(0, -1) - P(1, -1) + P(-1, 1) + 2 * P(0, 1) + P(1, 1)
    IN Min2(255, IsqrtBetween(gx * gx + gy * gy, 0, 46340))

SobelEnhance(img) ==
    Image(img.width, img.height,
          [p \in PointsOf(img.width, img.height) |->
              IF p \in SobelPoints(img) THEN SobelMagnitude(img, p[1], p[2]) ELSE 0])

SobelAccesses(img) ==
    {<<p[1] + dx, p[2] + dy>> : p \in SobelPoints(img), dx \in -1 .. 1, dy \in -1 .. 1}

\* PreprocessImageEnhanced: Sobel magnitude, blur with sigma 0.5, threshold 100
PreprocessImageEnhanced(img) ==
    Threshold(ApplyGaussianBlur(SobelEnhance(img), 5), 100)

PreprocessImageEnhancedAccesses(img) ==
    SobelAccesses(img) \cup ApplyGaussianBlurAccesses(img, 5)
    \cup PointsOf(img.width, img.height)

\* for (y = halfKernel; y < height - halfKernel; ++y), the same for x
MorphologyPoints(img, halfKernel) ==
    (halfKernel .. img.width - halfKernel - 1) \X (halfKernel .. img.height - halfKernel - 1)

Window(img, p, halfKernel) ==
    {ReadPixel(img, p[1] + dx, p[2] + dy) :
        dx \in -halfKernel .. halfKernel, dy \in -halfKernel .. halfKernel}

SetMax(S) == CHOOSE m \in S : \A v \in S : v <= m

SetMin(S) == CHOOSE m \in S : \A v \in S : m <= v

\* the dilation loops: window maxima of src written over a copy of base
Dilate(src, base, halfKernel) ==
    Image(base.width, base.height,
          [p \in PointsOf(base.width, base.height) |->
              IF p \in MorphologyPoints(base, halfKernel)
              THEN SetMax(Window(src, p, halfKernel) \cup {0})
              ELSE base.pixels[p]])

\* the erosion loops: window minima of src written over a copy of base
Erode(src, base, halfKernel) ==
    Image(base.width, base.height,
          [p \in PointsOf(base.width, base.height) |->
              IF p \in MorphologyPoints(base, halfKernel)
              THEN SetMin(Window(src, p, halfKernel) \cup {255})
              ELSE base.pixels[p]])

MorphologyAccesses(img, halfKernel) ==
    {<<p[1] + dx, p[2] + dy>> :
        p \in MorphologyPoints(img, halfKernel),
        dx \in -halfKernel .. halfKernel, dy \in -halfKernel .. halfKernel}

ApplyMorphologyClose(img, kernelSize) ==
    IF kernelSize < 1 THEN img
    ELSE Erode(Dilate(img, img, kernelSize \div 2), img, kernelSize \div 2)

ApplyMorphologyOpen(img, kernelSize) ==
    IF kernelSize < 1 THEN img
    ELSE Dilate(Erode(img, img, kernelSize \div 2), img, kernelSize \div 2)

\* PreprocessImageMorphological: threshold 127, close with 3, open with 2
PreprocessImageMorphological(img) ==
    ApplyMorphologyOpen(ApplyMorphologyClose(Threshold(img, 127), 3), 2)

PreprocessImageMorphologicalAccesses(img) ==
    PointsOf(img.width, img.height)
    \cup MorphologyAccesses(img, 3 \div 2) \cup MorphologyAccesses(img, 2 \div 2)

(***************************************************************************)
(* FindContours as a function of the raster: the scan of SpecFill run to   *)
(* completion.                                                             *)
(***************************************************************************)
\* while (!stack.empty()): pop, mark the run, push the runs above and below
RECURSIVE RunFill(_, _, _, _)
RunFill(img, vis, stk, reg) ==
    IF stk = <<>> THEN [visited |-> vis, region |-> reg]
    ELSE LET seg == stk[Len(stk)]
             marked == MarkRun(vis, seg.y, seg.x1, seg.x2)
             vis1 == vis \cup Range(marked)
         IN RunFill(img, vis1,
                    SubSeq(stk, 1, Len(stk) - 1) \o PushedBy(img, vis1, seg),
                    reg \o marked)

ScanlineFillContour(img, vis, startX, startY) ==
    RunFill(img, vis,
            <<ScanlineSegment(startY, ExtendLeft(img, vis, startX, startY),
                              ExtendRight(img, vis, startX, startY), -1)>>,
            <<>>)

\* the y / x loops from raster position c on, taken from one unvisited
\* foreground pixel to the next; minRegion is 50 in RectangleDetector and 20
\* in ObloidDetector, and only RectangleDetector sorts the boundary
RECURSIVE FindContoursFrom(_, _, _, _, _, _)
FindContoursFrom(img, vis, c, found, minRegion, sorted) ==
    LET seeds == {d \in c .. img.width * img.height - 1 : IsSeed(img, vis, d)}
        next == SetMin(seeds)
        fill == ScanlineFillContour(img, vis, PointAt(img, next)[1],
                                    PointAt(img, next)[2])
        boundary == IF sorted THEN ExtractBoundary(img, fill.region)
                    ELSE ExtractBoundaryPoints(img, fill.region)
        kept == Len(fill.region) >= minRegion /\ Len(boundary) >= MinBoundarySize
    IN IF seeds = {} THEN found
       ELSE FindContoursFrom(img, fill.visited, next + 1,
                             IF kept THEN Append(found, boundary) ELSE found,
                             minRegion, sorted)

FindContours(img) == FindContoursFrom(img, {}, 0, <<>>, MinRegionSize, TRUE)

ObloidFindContours(img) ==
    FindContoursFrom(img, {}, 0, <<>>, ObloidMinRegionSize, FALSE)

\* Indices FindContours reads: every raster position in the scan, and around
\* each foreground pixel the neighbours its guards let through (x1 > 0,
\* x2 < width - 1, 0 <= newY < height, and the bounds test of ExtractBoundary)
FindContoursAccesses(img) ==
    LET all == PointsOf(img.width, img.height)
        fg == {p \in all : img.pixels[p] = Foreground}
    IN all \cup {q \in {<<p[1] + dx, p[2] + dy>> :
                          p \in fg, dx \in -1 .. 1, dy \in -1 .. 1} :
                    /\ q[1] >= 0 /\ q[1] < img.width
                    /\ q[2] >= 0 /\ q[2] < img.height}

(***************************************************************************)
(* Polygon geometry of RectangleDetector.  Coordinates are integers, so    *)
(* cross products, shoelace sums and squared lengths are exact; lengths    *)
(* are counted in thousandths and areas as twice the shoelace area.        *)
(***************************************************************************)
\* the successor index (i + 1) % n of a 1-based sequence
NextIndex(i, n) == (i % n) + 1

\* the perimeter of the closed polygon, in thousandths
CalculatePerimeter(contour) ==
    IF Len(contour) < 2 THEN 0
    ELSE SumInts([i \in DOMAIN contour |->
                    DistanceMilli(contour[NextIndex(i, Len(contour))], contour[i])])

\* twice std::abs(area) * 0.5
CalculateArea(contour) ==
    IF Len(contour) < 3 THEN 0
    ELSE Abs(SumInts([i \in DOMAIN contour |->
               LET j == NextIndex(i, Len(contour))
               IN contour[i][1] * contour[j][2] - contour[j][1] * contour[i][2]]))

\* PointToLineDistanceSquared as the fraction num / den
PointToLineDistanceSquared(point, lineStart, lineEnd) ==
    LET A == lineEnd[2] - lineStart[2]
        B == lineStart[1] - lineEnd[1]
        C == lineEnd[1] * lineStart[2] - lineStart[1] * lineEnd[2]
        denominatorSquared == A * A + B * B
        distance == A * point[1] + B * point[2] + C
    IN IF denominatorSquared = 0 THEN [num |-> 0, den |-> 1]
       ELSE [num |-> distance * distance, den |-> denominatorSquared]

\* mutant: the farthest point is marked and the two parts are not searched
DouglasPeuckerSplitOnce(contour, start, end, epsilon) ==
    IF end - start <= 1 THEN {}
    ELSE LET dist(i) == PointToLineDistanceSquared(contour[i], contour[start],
                                                   contour[end])
             inner == start + 1 .. end - 1
             maxDist == SetMax({dist(i).num : i \in inner})
         IN IF 10000 * maxDist > epsilon * epsilon * dist(start + 1).den
            THEN {CHOOSE i \in inner : dist(i).num = maxDist}
            ELSE {}

\* The indices DouglasPeuckerRecursive marks between start and end.  All
\* distances of one call share their denominator; epsilon is in hundredths.
RECURSIVE DouglasPeuckerRecursive(_, _, _, _)
DouglasPeuckerRecursive(contour, start, end, epsilon) ==
    IF end - start <= 1 THEN {}
    ELSE LET dist(i) == PointToLineDistanceSquared(contour[i], contour[start],
                                                   contour[end])
             inner == start + 1 .. end - 1
             maxDist == SetMax({dist(i).num : i \in inner})
             maxIndex == IF maxDist = 0 THEN start
                         ELSE CHOOSE i \in inner :
                                /\ dist(i).num = maxDist
                                /\ \A k \in start + 1 .. i - 1 : dist(k).num < maxDist
             den == dist(start + 1).den
         IN IF 10000 * maxDist > epsilon * epsilon * den
            THEN {maxIndex}
                 \cup DouglasPeuckerRecursive(contour, start, maxIndex, epsilon)
                 \cup DouglasPeuckerRecursive(contour, maxIndex, end, epsilon)
            ELSE {}

\* keep[0] = keep[size - 1] = true, the recursion, and the collecting loop
DouglasPeucker(contour, epsilon) ==
    LET keep == {1, Len(contour)}
                \cup DouglasPeuckerRecursive(contour, 1, Len(contour), epsilon)
        kept == SelectSeq([i \in DOMAIN contour |-> <<i, contour[i]>>],
                          LAMBDA e : e[1] \in keep)
    IN [i \in DOMAIN kept |-> kept[i][2]]

Cross(O, A, B) ==
    (A[1] - O[1]) * (B[2] - O[2]) - (A[2] - O[2]) * (B[1] - O[1])

\* std::sort by x, then by y
RECURSIVE InsertLex(_, _)
InsertLex(s, p) ==
    IF s = <<>> THEN <<p>>
    ELSE IF p[1] < Head(s)[1] \/ (p[1] = Head(s)[1] /\ p[2] < Head(s)[2])
         THEN <<p>> \o s
         ELSE <<Head(s)>> \o InsertLex(Tail(s), p)

RECURSIVE SortLex(_, _)
SortLex(done, rest) ==
    IF rest = <<>> THEN done
    ELSE SortLex(InsertLex(done, Head(rest)), Tail(rest))

\* while (size >= 2 && Cross(...) <= 0) pop_back();  push_back(p)
RECURSIVE HullPush(_, _)
HullPush(hull, p) ==
    IF Len(hull) >= 2 /\ Cross(hull[Len(hull) - 1], hull[Len(hull)], p) <= 0
    THEN HullPush(SubSeq(hull, 1, Len(hull) - 1), p)
    ELSE Append(hull, p)

RECURSIVE HalfHull(_, _)
HalfHull(hull, points) ==
    IF points = <<>> THEN hull
    ELSE HalfHull(HullPush(hull, Head(points)), Tail(points))

Reverse(s) == [i \in DOMAIN s |-> s[Len(s) + 1 - i]]

ConvexHull(points) ==
    IF Len(points) < 3 THEN points
    ELSE LET sortedPoints == SortLex(<<>>, points)
             lower == HalfHull(<<>>, sortedPoints)
             upper == HalfHull(<<>>, Reverse(sortedPoints))
         IN SubSeq(lower, 1, Len(lower) - 1) \o SubSeq(upper, 1, Len(upper) - 1)

(***************************************************************************)
(* The moment-based strategy.  Central moments about the rounded centroid  *)
(* are integer sums; the code divides the moment of order p + q by         *)
(* n^((p + q) / 2 + 1), which the comparisons below carry as factors of n. *)
(***************************************************************************)
\* Point(round(sumX / size), round(sumY / size))
CalculateCentroid(contour) ==
    IF contour = <<>> THEN <<0, 0>>
    ELSE <<RoundDiv(SumSeq(contour, 1), Len(contour)),
           RoundDiv(SumSeq(contour, 2), Len(contour))>>

RECURSIVE Pow(_, _)
Pow(b, e) == IF e = 0 THEN 1 ELSE b * Pow(b, e - 1)

\* the central moment sum of CalculateHuMoment, before its normalisation
CalculateHuMoment(contour, p, q) ==
    Let(CalculateCentroid(contour), LAMBDA centroid :
        SumInts([i \in DOMAIN contour |->
                   Pow(contour[i][1] - centroid[1], p)
                   * Pow(contour[i][2] - centroid[2], q)]))

\* stdDev / meanDist < 0.15 over the distances to the centre of mass, the
\* distances counted in hundredths
IsLikelyCircularContour(contour) ==
    LET n == Len(contour)
        sumX == SumSeq(contour, 1)
        sumY == SumSeq(contour, 2)
        dist(i) ==
            LET dx == n * contour[i][1] - sumX
                dy == n * contour[i][2] - sumY
            IN (10 * IsqrtBetween(100 * (dx * dx + dy * dy), 0, 46340)) \div n
        meanDist == SumInts([i \in 1 .. n |-> dist(i)]) \div n
        variance == SumInts([i \in 1 .. n |->
                       (dist(i) - meanDist) * (dist(i) - meanDist)])
    IN IF n < 8 THEN FALSE
       ELSE 4 * variance < (9 * n * meanDist * meanDist) \div 100

\* the moments CalculateHuMoment is asked for, by their orders
CentralMoments(contour) ==
    [pq \in {<<2, 0>>, <<0, 2>>, <<1, 1>>, <<3, 0>>, <<0, 3>>, <<2, 1>>, <<1, 2>>}
        |-> CalculateHuMoment(contour, pq[1], pq[2])]

IsRectangleUsingMoments(contour) ==
    Let(CentralMoments(contour), LAMBDA m :
    LET n == Len(contour)
        m20 == m[<<2, 0>>]
        m02 == m[<<0, 2>>]
        m11 == m[<<1, 1>>]
        m30 == m[<<3, 0>>]
        m03 == m[<<0, 3>>]
        m21 == m[<<2, 1>>]
        m12 == m[<<1, 2>>]
        hu1 == m20 + m02
        hu2 == (m20 - m02) * (m20 - m02) + 4 * m11 * m11
        hu3 == (m30 - 3 * m12) * (m30 - 3 * m12)
               + (3 * m21 - m03) * (3 * m21 - m03)
        \* momentRatio = hu2 / hu1^2 in [0.003, 0.15]
        momentCheck == /\ hu2 >= (3 * hu1 * hu1 + 999) \div 1000
                       /\ hu2 <= (3 * hu1 * hu1) \div 20
        \* skewness = hu3 / (n^2 * hu1^1.5) < 0.15, sqrt(hu1) in tenths
        skewnessCheck ==
            hu3 < 3 * n * n * ((hu1 * IsqrtBetween(100 * hu1, 0, 46340)) \div 200)
        \* aspectRatio = sqrt(m20 / m02) in (0.2, 15), 1.0 when m02 is 0
        aspectCheck == m02 = 0 \/ (25 * m20 > m02 /\ m20 < 225 * m02)
        \* ellipticity = hu2 / hu1^2 > 0.002
        ellipticityCheck == hu2 > (hu1 * hu1) \div 500
    IN IF n < 8 \/ hu1 = 0 THEN FALSE
       ELSE momentCheck /\ skewnessCheck /\ aspectCheck /\ ellipticityCheck)

\* 0.5 * atan2(2 * m11, m20 - m02) in degrees.  The contours of this model
\* have m11 = 0 (a boundary symmetric about an axis through the rounded
\* centroid), where the angle is 0 or a quarter turn.
CalculateOrientation(contour) ==
    Let(CentralMoments(contour), LAMBDA m :
    LET m20 == m[<<2, 0>>]
        m02 == m[<<0, 2>>]
        m11 == m[<<1, 1>>]
    IN IF Len(contour) < 3 \/ m20 = m02 THEN 0
       ELSE CASE m11 = 0 /\ m20 > m02 -> 0
              [] m11 = 0 /\ m20 < m02 -> 90)

\* rotation about the rounded centroid by 0 or a quarter turn either way,
\* where cos and sin are 0 and +-1 and floor(v + 0.5) is exact
RotateContourToCanonical(contour, angle) ==
    Let(CalculateCentroid(contour), LAMBDA centroid :
    LET rotated(p) ==
            LET x == p[1] - centroid[1]
                y == p[2] - centroid[2]
            IN CASE angle = 90 -> <<centroid[1] - y, centroid[2] + x>>
                 [] angle = -90 -> <<centroid[1] + y, centroid[2] - x>>
    IN IF contour = <<>> \/ angle = 0 THEN contour
       ELSE [i \in DOMAIN contour |-> rotated(contour[i])])

FindRectangleCornersMomentBased(contour) ==
    IF Len(contour) < 8 \/ ~IsRectangleUsingMoments(contour) THEN <<>>
    ELSE
    Let(CalculateOrientation(contour), LAMBDA orientation :
    Let(RotateContourToCanonical(contour, -orientation), LAMBDA rotatedContour :
    LET margin == 1
        minX == SetMin({p[1] : p \in Range(rotatedContour)}) - margin
        maxX == SetMax({p[1] : p \in Range(rotatedContour)}) + margin
        minY == SetMin({p[2] : p \in Range(rotatedContour)}) - margin
        maxY == SetMax({p[2] : p \in Range(rotatedContour)}) + margin
        canonicalCorners == <<(<<minX, minY>>), (<<maxX, minY>>),
                              (<<maxX, maxY>>), (<<minX, maxY>>)>>
    IN RotateContourToCanonical(canonicalCorners, orientation)))

(***************************************************************************)
(* ApproximateContour.  cfg is [minArea, maxArea, approxEpsilon] with      *)
(* approxEpsilon in thousandths.  epsilon values are in hundredths.        *)
(***************************************************************************)
EpsilonMultipliers == <<5, 10, 15, 20, 30, 50, 80, 100, 150, 200, 300>>

\* std::max(epsilon * perimeter * multiplier, least), multiplier in hundredths
EpsilonValue(cfg, perimeter, multiplier, least) ==
    Max2((cfg.approxEpsilon * perimeter * multiplier) \div 1000000, least)

\* area >= minArea_ && area <= maxArea_ for a doubled area
AreaWithinLimits(cfg, area) == area >= 2 * cfg.minArea /\ area <= 2 * cfg.maxArea

\* the moment-based branch: its 4 corners, or <<>> when it does not return
MomentApproximation(cfg, contour) ==
    IF Len(contour) > 20 /\ ~IsLikelyCircularContour(contour)
    THEN Let(FindRectangleCornersMomentBased(contour), LAMBDA momentApprox :
             IF Len(momentApprox) = 4
                /\ AreaWithinLimits(cfg, CalculateArea(momentApprox))
             THEN momentApprox ELSE <<>>)
    ELSE <<>>

\* the loop over epsilonMultipliers from position k on: the first result of
\* exactly 4 or of 5 to 12 points, or <<>> when no multiplier gives one
RECURSIVE MultiEpsilonApproximation(_, _, _, _)
MultiEpsilonApproximation(cfg, contour, perimeter, k) ==
    IF k > Len(EpsilonMultipliers) THEN <<>>
    ELSE Let(DouglasPeucker(contour,
                 EpsilonValue(cfg, perimeter, EpsilonMultipliers[k], 200)),
             LAMBDA approx :
                 IF Len(approx) = 4 \/ (Len(approx) >= 5 /\ Len(approx) <= 12)
                 THEN approx
                 ELSE MultiEpsilonApproximation(cfg, contour, perimeter, k + 1))

(***************************************************************************)
(* FindRectangleUsingHoughLines.  A line is <<first point, last point>>.   *)
(***************************************************************************)
\* DetectLines from index i (0-based) on: a window of windowSize points
\* yields a line when its x coordinates are not all the same and its ends
\* are at least minLineLength = 10 apart
RECURSIVE DetectLinesFrom(_, _, _)
DetectLinesFrom(contour, i, windowSize) ==
    IF i >= Len(contour) THEN <<>>
    ELSE Let(Min2(i + windowSize, Len(contour)), LAMBDA endIdx :
         Let([j \in 1 .. endIdx - i |-> contour[i + j][1]], LAMBDA xs :
             (IF /\ endIdx - i >= 4
                 /\ (endIdx - i) * SumInts([j \in DOMAIN xs |-> xs[j] * xs[j]])
                       # SumInts(xs) * SumInts(xs)
                 /\ (contour[endIdx][1] - contour[i + 1][1])
                       * (contour[endIdx][1] - contour[i + 1][1])
                    + (contour[endIdx][2] - contour[i + 1][2])
                       * (contour[endIdx][2] - contour[i + 1][2]) >= 100
              THEN <<(<<contour[i + 1], contour[endIdx]>>)>>
              ELSE <<>>)
             \o DetectLinesFrom(contour, i + windowSize \div 2, windowSize)))

DetectLines(contour) ==
    IF Len(contour) < 6 THEN <<>>
    ELSE DetectLinesFrom(contour, 0, Max2(6, Len(contour) \div 8))

\* |cos| of the angle between the lines below 0.15, squared:
\* 400 dot^2 < 9 |d1|^2 |d2|^2
AreLinesPerpendicular(line1, line2) ==
    Let(<<line1[2][1] - line1[1][1], line1[2][2] - line1[1][2],
          line2[2][1] - line2[1][1], line2[2][2] - line2[1][2]>>, LAMBDA d :
        /\ d[1] * d[1] + d[2] * d[2] # 0
        /\ d[3] * d[3] + d[4] * d[4] # 0
        /\ 400 * (d[1] * d[3] + d[2] * d[4]) * (d[1] * d[3] + d[2] * d[4])
              < 9 * (d[1] * d[1] + d[2] * d[2]) * (d[3] * d[3] + d[4] * d[4]))

\* the first pass of FindRectangleUsingHoughLines from line i on
RECURSIVE SelectLines(_, _, _)
SelectLines(lines, i, selectedLines) ==
    IF i > Len(lines) \/ Len(selectedLines) >= 4 THEN selectedLines
    ELSE Let(Cardinality({k \in DOMAIN selectedLines :
                             AreLinesPerpendicular(lines[i], selectedLines[k])}),
             LAMBDA perpendicularCount :
                 SelectLines(lines, i + 1,
                     IF \/ selectedLines = <<>>
                        \/ Len(selectedLines) = 1 /\ perpendicularCount = 1
                        \/ Len(selectedLines) = 2 /\ perpendicularCount = 1
                        \/ Len(selectedLines) = 3 /\ perpendicularCount = 2
                     THEN Append(selectedLines, lines[i])
                     ELSE selectedLines))

\* the rounded intersection of two lines, as a list of one point, or <<>>
\* where denom is 0
LineIntersection(line1, line2) ==
    Let(<<line1[1][1], line1[1][2], line1[2][1], line1[2][2],
          line2[1][1], line2[1][2], line2[2][1], line2[2][2]>>, LAMBDA c :
    Let(<<(c[1] - c[3]) * (c[6] - c[8]) - (c[2] - c[4]) * (c[5] - c[7]),
          (c[1] - c[5]) * (c[6] - c[8]) - (c[2] - c[6]) * (c[5] - c[7])>>,
        LAMBDA t :   \* <<denom, numerator of t>>
            IF t[1] = 0 THEN <<>>
            ELSE <<(<<RoundDiv(c[1] * t[1] + t[2] * (c[3] - c[1]), t[1]),
                      RoundDiv(c[2] * t[1] + t[2] * (c[4] - c[2]), t[1])>>)>>))

FindRectangleUsingHoughLines(contour) ==
    IF Len(contour) < 8 THEN <<>>
    ELSE Let(DetectLines(contour), LAMBDA lines :
         IF Len(lines) < 4 THEN <<>>
         ELSE Let(SelectLines(lines, 1, <<>>), LAMBDA selectedLines :
              IF Len(selectedLines) # 4 THEN <<>>
              ELSE Let(LineIntersection(selectedLines[1], selectedLines[2])
                       \o LineIntersection(selectedLines[2], selectedLines[3])
                       \o LineIntersection(selectedLines[3], selectedLines[4])
                       \o LineIntersection(selectedLines[4], selectedLines[1]),
                       LAMBDA corners :
                           IF Len(corners) = 4 THEN corners ELSE <<>>)))

\* the Hough branch: its 4 corners, or <<>> when it does not return
HoughApproximation(contour) ==
    IF Len(contour) > HoughThreshold /\ ~IsLikelyCircularContour(contour)
    THEN FindRectangleUsingHoughLines(contour)
    ELSE <<>>

(***************************************************************************)
(* FindCornersRotationInvariant on the smoothed contour.  A curvature      *)
(* |cross| / ((len1 + len2) / 2) is kept as <<|cross|, len1 + len2>> with  *)
(* the lengths in thousandths, and two of them are compared by cross       *)
(* multiplication.                                                         *)
(***************************************************************************)
\* index i (1-based) moved by d places around a contour of n points
Around(i, d, n) == ((i - 1 + d + n) % n) + 1

\* the rounded mean of the 7 points around each point
SmoothContourForRotation(contour) ==
    IF Len(contour) < 3 THEN contour
    ELSE [i \in DOMAIN contour |->
            <<RoundDiv(SumInts([j \in 1 .. 7 |->
                          contour[Around(i, j - 4, Len(contour))][1]]), 7),
              RoundDiv(SumInts([j \in 1 .. 7 |->
                          contour[Around(i, j - 4, Len(contour))][2]]), 7)>>]

\* |CalculateCurvature(contour, index, windowSize)|
CalculateCurvature(contour, index, windowSize) ==
    IF Len(contour) < 3 \/ windowSize < 1 THEN <<0, 1>>
    ELSE Let(<<contour[Around(index, -windowSize, Len(contour))], contour[index],
               contour[Around(index, windowSize, Len(contour))]>>, LAMBDA pcn :
         Let(<<DistanceMilli(pcn[2], pcn[1]), DistanceMilli(pcn[3], pcn[2])>>,
             LAMBDA len :
                 IF len[1] = 0 \/ len[2] = 0 THEN <<0, 1>>
                 ELSE <<Abs((pcn[2][1] - pcn[1][1]) * (pcn[3][2] - pcn[2][2])
                            - (pcn[2][2] - pcn[1][2]) * (pcn[3][1] - pcn[2][1])),
                        len[1] + len[2]>>))

\* curvature a > curvature b
CurvatureGreater(a, b) == a[1] * b[2] > b[1] * a[2]

\* the local maxima of the curvature above 0.05, as <<curvature, index>>
CurvaturePeaks(curvatures, windowSize) ==
    {<<curvatures[i], i>> : i \in
        {i \in DOMAIN curvatures :
            /\ \A j \in -windowSize .. windowSize :
                  ~CurvatureGreater(curvatures[Around(i, j, Len(curvatures))],
                                    curvatures[i])
            /\ 40000 * curvatures[i][1] > curvatures[i][2]}}

\* the strongest peak: std::greater on the pairs
StrongestPeak(peaks) ==
    CHOOSE p \in peaks : \A q \in peaks :
        \/ CurvatureGreater(p[1], q[1])
        \/ ~CurvatureGreater(q[1], p[1]) /\ p[2] >= q[2]

\* the peaks in decreasing strength, each taken unless it is nearer than
\* minDistance, along the contour, to one taken before; at most 8
RECURSIVE SelectPeaks(_, _, _, _)
SelectPeaks(peaks, selectedIndices, minDistance, n) ==
    IF peaks = {} \/ Cardinality(selectedIndices) >= 8 THEN selectedIndices
    ELSE Let(StrongestPeak(peaks), LAMBDA peak :
             SelectPeaks(peaks \ {peak},
                 IF \E k \in selectedIndices :
                       Min2(Abs(peak[2] - k), n - Abs(peak[2] - k)) < minDistance
                 THEN selectedIndices
                 ELSE selectedIndices \cup {peak[2]},
                 minDistance, n))

FindCornersRotationInvariant(contour) ==
    IF Len(contour) < 8 THEN <<>>
    ELSE Let([i \in DOMAIN contour |-> CalculateCurvature(contour, i, 5)],
             LAMBDA curvatures :
         Let(SelectPeaks(CurvaturePeaks(curvatures,
                                        Max2(3, (Len(contour) \div 12) \div 2)),
                         {}, Len(contour) \div 12, Len(contour)),
             LAMBDA selectedIndices :
                 [k \in 1 .. Cardinality(selectedIndices) |->
                     contour[CHOOSE i \in selectedIndices :
                                Cardinality({m \in selectedIndices : m <= i}) = k]]))

\* the curvature branch: its 4 to 8 corners, or <<>> when it does not return
CurvatureApproximation(contour) ==
    Let(SmoothContourForRotation(contour), LAMBDA smoothedContour :
        IF Len(smoothedContour) > CurvatureThreshold
        THEN Let(FindCornersRotationInvariant(smoothedContour), LAMBDA approx :
                 IF Len(approx) >= 4 /\ Len(approx) <= 8 THEN approx ELSE <<>>)
        ELSE <<>>)

ApproximateContour(cfg, contour) ==
    IF Len(contour) < 4 THEN contour
    ELSE
    Let(CalculatePerimeter(contour), LAMBDA perimeter :
    Let(MomentApproximation(cfg, contour), LAMBDA momentApprox :
        IF momentApprox # <<>> THEN momentApprox
        ELSE
    Let(HoughApproximation(contour), LAMBDA houghApprox :
        IF houghApprox # <<>> THEN houghApprox
        ELSE
    Let(CurvatureApproximation(contour), LAMBDA rotationInvariantApprox :
        IF rotationInvariantApprox # <<>> THEN rotationInvariantApprox
        ELSE
    Let(MultiEpsilonApproximation(cfg, contour, perimeter, 1), LAMBDA approx :
        IF approx # <<>> THEN approx
        ELSE
    Let(ConvexHull(contour), LAMBDA hull :
        IF Len(hull) >= 4 /\ Len(hull) <= 8 THEN hull
        ELSE DouglasPeucker(contour, EpsilonValue(cfg, perimeter, 100, 300))))))))

(***************************************************************************)
(* Corner angles, in thousandths of a radian.                              *)
(***************************************************************************)
HalfPiMilli == 1571

\* atan(t) for t in [0, 1] given in thousandths, within 0.002 rad:
\* (pi / 4) t + t (1 - t) (0.2447 + 0.0663 t)
ArctanUnit(t) ==
    ((785398 * t) \div 1000
     + (t * (1000 - t) * (2447 + (663 * t) \div 1000)) \div 10000) \div 1000

\* atan(p / q) for p >= 0 and q > 0
ArctanRatio(p, q) ==
    IF p <= q THEN ArctanUnit((1000 * p) \div q)
    ELSE HalfPiMilli - ArctanUnit((1000 * q) \div p)

\* acos of the clamped cosine, which is the angle from the dot and cross
\* products of the two edge vectors
CalculateCornerAngleFast(prev, current, next) ==
    LET dx1 == prev[1] - current[1]
        dy1 == prev[2] - current[2]
        dx2 == next[1] - current[1]
        dy2 == next[2] - current[2]
        dot == dx1 * dx2 + dy1 * dy2
        cross == Abs(dx1 * dy2 - dy1 * dx2)
    IN IF (dx1 = 0 /\ dy1 = 0) \/ (dx2 = 0 /\ dy2 = 0) THEN 0
       ELSE IF dot = 0 THEN HalfPiMilli
       ELSE IF dot > 0 THEN ArctanRatio(cross, dot)
       ELSE 2 * HalfPiMilli - ArctanRatio(cross, -dot)

(***************************************************************************)
(* SelectBestCorners: always 4 points, Point() = (0, 0) where none is set. *)
(***************************************************************************)
\* the hull positions of the k largest angles, larger first, the earlier
\* position first among equal angles
RECURSIVE LargestAngles(_, _, _)
LargestAngles(angles, chosen, k) ==
    IF k = 0 THEN <<>>
    ELSE LET rest == DOMAIN angles \ chosen
             best == CHOOSE i \in rest :
                       \A j \in rest : angles[j] < angles[i]
                                       \/ (angles[j] = angles[i] /\ i <= j)
         IN <<best>> \o LargestAngles(angles, chosen \cup {best}, k - 1)

\* the interior angle at each point of the hull
HullAngles(hull) ==
    LET n == Len(hull)
    IN [i \in 1 .. n |->
          CalculateCornerAngleFast(hull[((i + n - 2) % n) + 1], hull[i],
                                   hull[NextIndex(i, n)])]

SelectBestCorners(corners) ==
    IF Len(corners) <= 4
    THEN [i \in 1 .. 4 |-> IF i <= Len(corners) THEN corners[i] ELSE <<0, 0>>]
    ELSE
    Let(ConvexHull(corners), LAMBDA hull :
        IF Len(hull) = 4 THEN hull
        ELSE IF Len(hull) > 4
        THEN Let(LargestAngles(HullAngles(hull), {}, 4), LAMBDA top :
                 SortBoundaryPointsRadix([i \in 1 .. 4 |-> hull[top[i]]]))
        ELSE [i \in 1 .. 4 |-> <<0, 0>>])

(***************************************************************************)
(* IsRectangle and CreateRectangle.                                        *)
(***************************************************************************)
\* opposite sides roughly parallel: | |dot| - 1 | < 0.35 for the unit side
\* vectors, which is dot^2 > 0.65^2 * |a|^2 * |b|^2 for the sides themselves
IsValidQuadrilateral(quad) ==
    LET side(i) == <<quad[NextIndex(i, 4)][1] - quad[i][1],
                     quad[NextIndex(i, 4)][2] - quad[i][2]>>
        len2(i) == side(i)[1] * side(i)[1] + side(i)[2] * side(i)[2]
        parallel(i, j) ==
            LET dot == side(i)[1] * side(j)[1] + side(i)[2] * side(j)[2]
            IN 400 * dot * dot > 169 * len2(i) * len2(j)
    IN /\ Len(quad) = 4
       /\ \A i \in 1 .. 4 : len2(i) > 0
       /\ parallel(1, 3)
       /\ parallel(2, 4)

\* areaRatio > 1.3, or circularity = perimeter^2 / (4 pi contourArea) < 1.2
IsCircularShape(contour, approx) ==
    LET contourArea == CalculateArea(contour)
        approxArea == CalculateArea(approx)
        perimeter == CalculatePerimeter(contour) \div 10
    IN \/ contourArea > 0 /\ approxArea > 0 /\ 10 * contourArea > 13 * approxArea
       \/ contourArea > 0 /\ perimeter > 0
          /\ perimeter * perimeter < 75398 * contourArea

\* the tests of IsRectangle on the 4 corners it has settled on: area limits,
\* parallel opposite sides, not circular, corner angles, bounding box fill
PassesRectangleTests(cfg, contour, approx) ==
    LET area == CalculateArea(approx)
        deviation(i) ==
            Abs(CalculateCornerAngleFast(approx[((i + 2) % 4) + 1], approx[i],
                                         approx[NextIndex(i, 4)]) - HalfPiMilli)
        validCorners == Cardinality({i \in 1 .. 4 : deviation(i) < 1000})
        xs == {p[1] : p \in Range(approx)}
        ys == {p[2] : p \in Range(approx)}
        boundingBoxArea == (SetMax(xs) - SetMin(xs)) * (SetMax(ys) - SetMin(ys))
    IN /\ AreaWithinLimits(cfg, area)
       /\ IsValidQuadrilateral(approx)
       /\ ~IsCircularShape(contour, approx)
       /\ validCorners >= 2
       /\ SumInts([i \in 1 .. 4 |-> deviation(i)]) <= 2800
       /\ ~(10 * area < 3 * boundingBoxArea)

\* IsRectangle on the vertex list ApproximateContour returned for the contour
IsRectangleOf(cfg, contour, approximated) ==
    /\ Len(contour) >= 4
    /\ Len(approximated) >= 4
    /\ Len(approximated) <= 6
    /\ PassesRectangleTests(cfg, contour,
                            IF Len(approximated) > 4
                            THEN SelectBestCorners(approximated)
                            ELSE approximated)

IsRectangle(cfg, contour) ==
    IsRectangleOf(cfg, contour, ApproximateContour(cfg, contour))

\* keep a corner unless it is nearer than the merge distance to a kept one
RECURSIVE CleanupFrom(_, _, _)
CleanupFrom(cleaned, corners, minDistanceSquared) ==
    IF corners = <<>> THEN cleaned
    ELSE LET corner == Head(corners)
             keepPoint == \A k \in DOMAIN cleaned :
                 (corner[1] - cleaned[k][1]) * (corner[1] - cleaned[k][1])
                 + (corner[2] - cleaned[k][2]) * (corner[2] - cleaned[k][2])
                   >= minDistanceSquared
         IN CleanupFrom(IF keepPoint THEN Append(cleaned, corner) ELSE cleaned,
                        Tail(corners), minDistanceSquared)

\* mutant: the merge distance for at most 4 corners, whatever their number
CleanupCornersUnitDistance(corners) ==
    CleanupFrom(<<>>, corners, MinDistanceSquared)

CleanupCorners(corners) ==
    Let(corners, LAMBDA given :
        CleanupFrom(<<>>, given,
                    IF Len(given) <= 4 THEN MinDistanceSquared
                    ELSE MinDistanceSquaredLarge))

\* static_cast<int> of a quotient: towards zero
TruncDiv(p, q) ==
    IF (p < 0) = (q < 0) \/ p = 0 THEN Abs(p) \div Abs(q) ELSE -(Abs(p) \div Abs(q))

\* the shoelace centroid, or the truncated mean where the signed area is 0
CalculateContourCentroid(contour) ==
    LET n == Len(contour)
        cross(i) == contour[i][1] * contour[NextIndex(i, n)][2]
                    - contour[NextIndex(i, n)][1] * contour[i][2]
        area == SumInts([i \in 1 .. n |-> cross(i)])
        centroidX == SumInts([i \in 1 .. n |->
                        (contour[i][1] + contour[NextIndex(i, n)][1]) * cross(i)])
        centroidY == SumInts([i \in 1 .. n |->
                        (contour[i][2] + contour[NextIndex(i, n)][2]) * cross(i)])
    IN IF contour = <<>> THEN <<0, 0>>
       ELSE IF area = 0
       THEN <<TruncDiv(SumSeq(contour, 1), n), TruncDiv(SumSeq(contour, 2), n)>>
       ELSE <<TruncDiv(centroidX, 3 * area), TruncDiv(centroidY, 3 * area)>>

\* the corners CreateRectangle goes on with after CleanupCorners: more than 4
\* are reduced by SelectBestCorners, whose (0, 0) entries are dropped
CornersForExtraction(cleanedCorners) ==
    IF Len(cleanedCorners) > 4
    THEN SelectSeq(SelectBestCorners(cleanedCorners), LAMBDA c : c # <<0, 0>>)
    ELSE cleanedCorners

\* CreateRectangle from the corners on.  assigned tells whether width, height
\* and angle were written; Rectangle rect; leaves them indeterminate and its
\* center (0, 0).
RectangleFromCorners(contour, corners) ==
    LET edge(i) == DistanceMilli(corners[NextIndex(i, 4)], corners[i])
        sum1 == edge(1) + edge(3)
        sum2 == edge(2) + edge(4)
    IN IF Len(corners) # 4
       THEN [assigned |-> FALSE, center |-> <<0, 0>>, width |-> 0, height |-> 0]
       ELSE [assigned |-> TRUE,
             center |-> CalculateContourCentroid(contour),
             width |-> Max2(sum1, sum2) \div 2000,
             height |-> Min2(sum1, sum2) \div 2000]

CreateRectangle(cfg, contour) ==
    RectangleFromCorners(contour,
        CornersForExtraction(CleanupCorners(ApproximateContour(cfg, contour))))

(***************************************************************************)
(* DetectRectangles from the raster on: the three contour strategies, the  *)
(* Hough strategy, which returns an empty list, and the deduplication.     *)
(***************************************************************************)
\* values an int that was never written can hold
Indeterminate == {-3, 0, 4, 40}

\* what one iteration of the sequential loop of ProcessContoursAtScale can
\* append for a contour
ContourOutcomes(cfg, contour) ==
    IF ~IsRectangle(cfg, contour) THEN {<<>>}
    ELSE LET rect == CreateRectangle(cfg, contour)
             pushed(c, w, h) ==
                 IF w > 0 /\ h > 0
                 THEN <<[center |-> c, width |-> w, height |-> h]>>
                 ELSE <<>>
         IN IF rect.assigned
            THEN {pushed(rect.center, rect.width, rect.height)}
            ELSE {pushed(rect.center, w, h) :
                    w \in Indeterminate, h \in Indeterminate}

\* the sequential branch, from contour i on: the lists it can append
RECURSIVE ProcessContoursFrom(_, _, _)
ProcessContoursFrom(cfg, cs, i) ==
    IF i > Len(cs) THEN {<<>>}
    ELSE {first \o rest : first \in ContourOutcomes(cfg, cs[i]),
                          rest \in ProcessContoursFrom(cfg, cs, i + 1)}

ProcessContoursAtScale(cfg, cs) ==
    CASE ~(Len(cs) > ParallelThreshold) -> ProcessContoursFrom(cfg, cs, 1)

\* the points of a contour and the corners IsRectangle gets for it from
\* ApproximateContour
PointsProduced(cfg, contour) ==
    Range(contour) \cup Range(ApproximateContour(cfg, contour))

\* FindContours and ProcessContoursAtScale on a preprocessed raster
RunStrategy(processed, accesses, nextPc) ==
    /\ \E cs \in {FindContours(processed)} :
         /\ detected' \in {detected \o more :
                             more \in ProcessContoursAtScale(config, cs)}
         /\ produced' = produced \cup UNION {PointsProduced(config, cs[i]) :
                                                i \in DOMAIN cs}
    /\ touched' = touched \cup accesses \cup FindContoursAccesses(processed)
    /\ ipc' = nextPc
    /\ UNCHANGED <<input, config>>
    /\ pipFrame

\* Strategy 1: standard contour-based detection
RunStandard ==
    /\ ipc = "standard"
    /\ RunStrategy(PreprocessImage(input), PreprocessImageAccesses(input),
                   "enhanced")

\* Strategy 2: enhanced edge detection
RunEnhanced ==
    /\ ipc = "enhanced"
    /\ RunStrategy(PreprocessImageEnhanced(input),
                   PreprocessImageEnhancedAccesses(input), "morphological")

\* Strategy 3: morphological operations
RunMorphological ==
    /\ ipc = "morphological"
    /\ RunStrategy(PreprocessImageMorphological(input),
                   PreprocessImageMorphologicalAccesses(input), "hough")

DetectRectanglesUsingHoughLines(img) == <<>>

\* Strategy 4, RemoveDuplicateRectangles and the return
FinishDetectRectangles ==
    /\ ipc = "hough"
    /\ detected' = RemoveDuplicateRectangles(
                       detected \o DetectRectanglesUsingHoughLines(input))
    /\ ipc' = "done"
    /\ UNCHANGED <<input, config, touched, produced>>
    /\ pipFrame

(***************************************************************************)
(* Rasters without foreground, handed to DetectRectangles and to           *)
(* DetectSpheres.                                                          *)
(***************************************************************************)
MaxDim == 4    \* blank rasters are w x h for w, h in 0 .. MaxDim

BlankImage(w, h) == Image(w, h, [p \in PointsOf(w, h) |-> 0])

RectangleConfig(minArea, maxArea) ==
    [minArea |-> minArea, maxArea |-> maxArea, approxEpsilon |-> 20]

\* the constructor's parameters, and a detector set to accept any area
BlankConfigs == {RectangleConfig(500, 10000), RectangleConfig(0, 10000)}

\* DetectObloids up to its contour loop: PreprocessImage and FindContours
PreprocessAndFindObloidContours ==
    /\ opc = "preprocess"
    /\ \E processed \in {ObloidPreprocessImage(input)} :
          /\ ocontours' = ObloidFindContours(processed)
          /\ touched' = touched \cup ObloidPreprocessImageAccesses(input)
                                \cup FindContoursAccesses(processed)
    /\ produced' = produced \cup UNION {Range(ocontours'[i]) : i \in DOMAIN ocontours'}
    /\ opc' = "evaluate"
    /\ UNCHANGED <<oapi, oconfig, obloids, circles>>
    /\ UNCHANGED <<input, config, ipc, detected>>
    /\ UNCHANGED <<fillVars, detVars, dupVars, cfgVars, apxVars>>

InitBlank ==
    /\ \E w \in 0 .. MaxDim : \E h \in 0 .. MaxDim : input = BlankImage(w, h)
    /\ config \in BlankConfigs
    /\ ipc = "standard"
    /\ detected = <<>>
    /\ touched = {}
    /\ produced = {}
    /\ oapi = "DetectSpheres"
    /\ oconfig \in {c \in ObloidConfigs : c.confidenceThreshold = 700}
    /\ ocontours = <<>>
    /\ obloids = <<>>
    /\ circles = <<>>
    /\ opc = "preprocess"
    /\ IdleFill
    /\ IdleDetect
    /\ IdleDedup
    /\ IdleConfig
    /\ IdleApprox

NextBlank ==
    \/ RunStandard
    \/ RunEnhanced
    \/ RunMorphological
    \/ FinishDetectRectangles
    \/ PreprocessAndFindObloidContours
    \/ EvaluateSequential
    \/ DedupObloids
    \/ ReturnSpheres

SpecBlank == InitBlank /\ [][NextBlank]_vars

(***************************************************************************)
(* C6.  On a raster without foreground, of any dimensions from 0 x 0 up,   *)
(* DetectRectangles and DetectSpheres return an empty list, and no step of *)
(* either reads or writes a pixel index outside the raster.                *)
(***************************************************************************)
C6_BlankRasterYieldsNothing ==
    /\ touched \subseteq PointsOf(input.width, input.height)
    /\ ipc = "done" => detected = <<>>
    /\ opc = "done" => circles = <<>>

\* both calls have returned on a raster of a single column, every pixel of
\* which they read
C6_Witness ==
    /\ ipc = "done"
    /\ opc = "done"
    /\ input.width = 1
    /\ input.height = MaxDim
    /\ touched = PointsOf(1, MaxDim)
    /\ detected = <<>>
    /\ circles = <<>>

(***************************************************************************)
(* Rasters holding one filled axis-aligned rectangle, apart from the       *)
(* raster's border, handed to DetectRectangles.                            *)
(***************************************************************************)
AreaWidth == 16     \* the rasters are AreaWidth x AreaHeight
AreaHeight == 14

\* width and height of the filled rectangle, and its top left corner
RectangleSizes == {<<9, 6>>, <<9, 7>>, <<6, 9>>, <<7, 9>>, <<10, 7>>, <<7, 8>>}

RectangleOffsets == {<<2, 2>>, <<3, 2>>}

\* rectangles lying against the top or the left border of the raster, as
\* <<top left corner, size>>
BorderRectangles ==
    {<<(<<2, 0>>), (<<9, 6>>)>>, <<(<<2, 0>>), (<<9, 7>>)>>,
     <<(<<0, 2>>), (<<9, 7>>)>>, <<(<<0, 2>>), (<<10, 7>>)>>}

RectangleImage(origin, size) ==
    Image(AreaWidth, AreaHeight,
          [p \in PointsOf(AreaWidth, AreaHeight) |->
              IF /\ p[1] >= origin[1] /\ p[1] < origin[1] + size[1]
                 /\ p[2] >= origin[2] /\ p[2] < origin[2] + size[2]
              THEN Foreground ELSE 0])

AreaImages ==
    {RectangleImage(origin, size) : origin \in RectangleOffsets, size \in RectangleSizes}
    \cup {RectangleImage(b[1], b[2]) : b \in BorderRectangles}

AreaConfigs ==
    {RectangleConfig(minArea, maxArea) :
        minArea \in {30, 60, 75}, maxArea \in {200, 10000}}

InitArea ==
    /\ input \in AreaImages
    /\ config \in AreaConfigs
    /\ ipc = "standard"
    /\ detected = <<>>
    /\ touched = {}
    /\ produced = {}
    /\ IdleFill
    /\ IdleDetect
    /\ IdleDedup
    /\ IdleObloid
    /\ IdleConfig
    /\ IdleApprox

NextArea ==
    \/ RunStandard
    \/ RunEnhanced
    \/ RunMorphological
    \/ FinishDetectRectangles

SpecArea == InitArea /\ [][NextArea]_vars

\* the rectangle's true area: its pixel count
TrueArea == Cardinality({p \in DOMAIN input.pixels : input.pixels[p] = Foreground})

(***************************************************************************)
(* C3.  For a filled axis-aligned rectangle of true area A on an otherwise *)
(* black raster, DetectRectangles returns no candidate whenever            *)
(* minArea > A and whenever maxArea < A.                                   *)
(***************************************************************************)
C3_AreaFilteringByTrueArea ==
    (ipc = "done" /\ (config.minArea > TrueArea \/ config.maxArea < TrueArea))
        => detected = <<>>

(***************************************************************************)
(* C10.  The points one ScanlineFillContour call records are exactly the   *)
(* foreground pixels 4-connected to the seed through pixels that were      *)
(* unvisited when the call started.                                        *)
(***************************************************************************)
Neighbours4(p) ==
    {q \in PointsOf(Side, Side) : Abs(q[1] - p[1]) + Abs(q[2] - p[2]) = 1}

RECURSIVE Grow(_, _)
Grow(S, free) ==
    LET more == {q \in free : \E p \in S : q \in Neighbours4(p)} \ S
    IN IF more = {} THEN S ELSE Grow(S \cup more, free)

\* the component of s among the pixels that are foreground and not in vis
ComponentOf(img, vis, s) ==
    Grow({s}, {q \in PointsOf(Side, Side) : img.pixels[q] = 255 /\ q \notin vis})

FillFinished == fpc = "fill" /\ stack = <<>>

C10_FillIsComponent ==
    FillFinished => Range(region) = ComponentOf(image, visited0, seed)

\* a finished fill of a component with a hole, whose lower rows extend past
\* the parent run on both sides
C10_Witness ==
    /\ FillFinished
    /\ Cardinality(Range(region)) >= 8
    /\ image.pixels[<<1, 1>>] = 0
    /\ Range(region) = ComponentOf(image, visited0, seed)

(***************************************************************************)
(* C11.  Over a FindContours scan every foreground pixel is recorded once: *)
(* no point list of a fill holds a pixel twice, no pixel is in the lists   *)
(* of two fills, the pixels marked visited are exactly the recorded ones   *)
(* and are all foreground, and when the scan has ended every foreground    *)
(* pixel is marked visited.                                                *)
(***************************************************************************)
ForegroundOf(img) ==
    {p \in PointsOf(img.width, img.height) : img.pixels[p] = Foreground}

\* the point lists of the fills so far, the running one included
RecordedLists == regions \o (IF fpc = "fill" THEN <<region>> ELSE <<>>)

C11_EachForegroundPixelOnce ==
    /\ \A i \in DOMAIN RecordedLists :
          Cardinality(Range(RecordedLists[i])) = Len(RecordedLists[i])
    /\ \A i \in DOMAIN RecordedLists : \A j \in DOMAIN RecordedLists :
          i < j => Range(RecordedLists[i]) \cap Range(RecordedLists[j]) = {}
    /\ visited = UNION {Range(RecordedLists[i]) : i \in DOMAIN RecordedLists}
    /\ visited \subseteq ForegroundOf(image)
    /\ fpc = "done" => visited = ForegroundOf(image)

\* a finished scan of a raster with background that held two regions, one
\* of them filled from more than one segment
C11_Witness ==
    /\ fpc = "done"
    /\ Len(regions) = 2
    /\ Len(regions[1]) >= 4
    /\ pops >= 2
    /\ ForegroundOf(image) # PointsOf(image.width, image.height)
    /\ visited = ForegroundOf(image)

(***************************************************************************)
(* SpecRegion: the FindContours scan of SpecFill on rasters large enough   *)
(* for regions to pass the size tests.  A wall column of background splits *)
(* the raster into blocks of 20 and of 50 pixels; a layout with specks has *)
(* single foreground pixels on a diagonal in place of the left block; a    *)
(* layout with its wall at RegionWidth has no wall and is one block.  Up   *)
(* to MaxHoles pixels are then inverted: a hole in a block, a gap in the   *)
(* wall, a pixel joining two specks.                                       *)
(***************************************************************************)
RegionWidth == 15
RegionHeight == 5
MaxHoles == 1

Layouts ==
    {[wall |-> 4, specks |-> FALSE], [wall |-> 10, specks |-> FALSE],
     [wall |-> 4, specks |-> TRUE], [wall |-> RegionWidth, specks |-> FALSE]}

LayoutBackground(layout, p) ==
    \/ p[1] = layout.wall
    \/ layout.specks /\ p[1] < layout.wall /\ p[1] # p[2]

WalledImage(layout, inverted) ==
    Image(RegionWidth, RegionHeight,
          [p \in PointsOf(RegionWidth, RegionHeight) |->
              IF LayoutBackground(layout, p) = (p \in inverted) THEN Foreground ELSE 0])

\* the subsets of S with at most n elements
RECURSIVE SubsetsUpTo(_, _)
SubsetsUpTo(S, n) ==
    IF n = 0 THEN {{}}
    ELSE {H \cup extra : H \in SubsetsUpTo(S, n - 1),
                         extra \in {{}} \cup {{p} : p \in S}}

RegionImages ==
    {WalledImage(wall, inverted) :
        wall \in Layouts,
        inverted \in SubsetsUpTo(PointsOf(RegionWidth, RegionHeight), MaxHoles)}

InitRegion ==
    /\ image \in RegionImages
    /\ visited = {}
    /\ cursor = 0
    /\ stack = <<>>
    /\ region = <<>>
    /\ seed = <<0, 0>>
    /\ visited0 = {}
    /\ pops = 0
    /\ contours = <<>>
    /\ lastBoundary = <<>>
    /\ regions = <<>>
    /\ finder \in {"RectangleDetector", "ObloidDetector"}
    /\ fpc = "scan"
    /\ IdleDetect
    /\ IdleDedup
    /\ IdleObloid
    /\ IdlePipeline
    /\ IdleConfig
    /\ IdleApprox

SpecRegion == InitRegion /\ [][NextFill]_vars

(***************************************************************************)
(* C12.  ExtractBoundary returns exactly the region points that have, among *)
(* their 8 neighbours, one outside the raster or one that is background:   *)
(* each such point once, no other point, and so every region point on the  *)
(* border of the raster.                                                   *)
(***************************************************************************)
Neighbours8(p) ==
    {<<p[1] + dx, p[2] + dy>> : dx \in -1 .. 1, dy \in -1 .. 1} \ {p}

TouchesOutside(img, p) ==
    \E q \in Neighbours8(p) :
        q \notin PointsOf(img.width, img.height) \/ img.pixels[q] = 0

\* the fill that just returned was handed to ExtractBoundary
BoundaryExtracted ==
    fpc \in {"scan", "done"} /\ regions # <<>> /\ Len(region) >= MinRegionOf(finder)

C12_BoundaryIsExactlyTheEdgePoints ==
    BoundaryExtracted =>
        /\ Range(lastBoundary) = {p \in Range(region) : TouchesOutside(image, p)}
        /\ Cardinality(Range(lastBoundary)) = Len(lastBoundary)
        /\ \A p \in Range(region) :
              (p[1] \in {0, image.width - 1} \/ p[2] \in {0, image.height - 1})
                  => p \in Range(lastBoundary)

\* the boundary of a block with a hole: it holds a point that only touches
\* the hole diagonally, and the region has points that are not boundary
C12_Witness ==
    /\ BoundaryExtracted
    /\ finder = "RectangleDetector"
    /\ \E p \in Range(lastBoundary) :
          /\ \A q \in {<<p[1] - 1, p[2]>>, <<p[1] + 1, p[2]>>,
                        <<p[1], p[2] - 1>>, <<p[1], p[2] + 1>>} :
                q \in PointsOf(image.width, image.height) /\ image.pixels[q] = Foreground
          /\ TouchesOutside(image, p)
    /\ Range(region) \ Range(lastBoundary) # {}

(***************************************************************************)
(* C13.  A region yields a contour only if it has at least 50 pixels in    *)
(* RectangleDetector (20 in ObloidDetector) and at least 8 boundary        *)
(* points: the contours FindContours has collected are, one for one, the   *)
(* boundaries of the regions of that size, so single pixels and every      *)
(* region below the minimum yield nothing to classify.  FindContours reads *)
(* none of minArea, maxArea, minRadius, maxRadius.                         *)
(***************************************************************************)
EdgePoints(reg) == {p \in Range(reg) : TouchesOutside(image, p)}

LargeEnough(reg) ==
    /\ Len(reg) >= (IF finder = "RectangleDetector" THEN 50 ELSE 20)
    /\ Cardinality(EdgePoints(reg)) >= 8

LargeRegions == {i \in DOMAIN regions : LargeEnough(regions[i])}

C13_SmallRegionsYieldNoContour ==
    /\ Len(contours) = Cardinality(LargeRegions)
    /\ \A k \in DOMAIN contours :
          \E i \in LargeRegions : Range(contours[k]) = EdgePoints(regions[i])

\* RectangleDetector has scanned a raster of single pixels and a block of
\* 49 pixels, and has no contour
C13_Witness ==
    /\ fpc = "done"
    /\ finder = "RectangleDetector"
    /\ \E i \in DOMAIN regions : Len(regions[i]) = 1
    /\ \E i \in DOMAIN regions : Len(regions[i]) = 49
    /\ contours = <<>>

(***************************************************************************)
(* C14.  Every point DetectRectangles produces lies within the raster:     *)
(* the contour points, the corners ApproximateContour returns, and the     *)
(* centers of the rectangles collected.                                    *)
(***************************************************************************)
C14_PointsWithinRaster ==
    /\ produced \subseteq PointsOf(input.width, input.height)
    /\ \A i \in DOMAIN detected :
          detected[i].center \in PointsOf(input.width, input.height)

(***************************************************************************)
(* C15.  Every rectangle DetectRectangles returns has                      *)
(* minArea <= width * height <= maxArea for the parameters of the call.    *)
(***************************************************************************)
C15_ReturnedAreaWithinLimits ==
    ipc = "done" =>
        \A i \in DOMAIN detected :
            /\ config.minArea <= detected[i].width * detected[i].height
            /\ detected[i].width * detected[i].height <= config.maxArea


(***************************************************************************)
(* One detector across its calls: the constructor, the setters between     *)
(* the calls, and the calls.  A RectangleDetector is called on rasters     *)
(* holding one rectangle, an ObloidDetector or a SphereDetector on the     *)
(* contours of a scene.                                                    *)
(***************************************************************************)
\* the values the setters are called with: the constructors' among them,
\* negative ones, and limits that exclude each other
MinAreaValues == {500, 30, -1}
MaxAreaValues == {10000, 10}
EpsilonValues == {20, 50}
MinRadiusValues == {10, 0}
MaxRadiusValues == {100, 2}
CircularityValues == {800, 1100}
ConfidenceValues == {700, -500}

\* rasters whose contours, under the three preprocessings, have at most
\* CurvatureThreshold points
ConfigImages ==
    {RectangleImage(<<2, 0>>, <<9, 6>>), RectangleImage(<<0, 2>>, <<10, 7>>)}

\* scenes that DetectObloids evaluates in its sequential branch: those of
\* the fewest contours whose two shapes have boundaries of the same length
ConfigScenes ==
    {cs \in ObloidScenes : /\ Len(cs) = ParallelThreshold - 1
                           /\ Len(cs[1]) = Len(cs[Len(cs)])}

\* RectangleDetector::RectangleDetector
ConstructRectangleDetector == [minArea |-> 500, maxArea |-> 10000, approxEpsilon |-> 20]

\* ObloidDetector::ObloidDetector and SphereDetector::SphereDetector
ConstructObloidDetector ==
    [minRadius |-> 10, maxRadius |-> 100,
     circularityThreshold |-> 800, confidenceThreshold |-> 700]

\* no call of the RectangleDetector is running
RectangleDetectorAtRest == ipc \in {"ready", "done"}

\* no call of the ObloidDetector or SphereDetector is running
ObloidDetectorAtRest == opc \in {"ready", "done"}

\* mutant: a setter that refuses a limit below the present minimum
SetMaxAreaValidated ==
    /\ RectangleDetectorAtRest
    /\ \E maxArea \in MaxAreaValues :
          /\ config' = IF maxArea >= config.minArea
                       THEN [config EXCEPT !.maxArea = maxArea] ELSE config
          /\ lastSet' = [lastSet EXCEPT !.maxArea = maxArea]
    /\ UNCHANGED <<input, ipc, detected, touched, produced, callConfig>>
    /\ UNCHANGED <<fillVars, detVars, dupVars, oblVars, apxVars>>

SetMinArea ==
    /\ RectangleDetectorAtRest
    /\ \E minArea \in MinAreaValues :
          /\ config' = [config EXCEPT !.minArea = minArea]
          /\ lastSet' = [lastSet EXCEPT !.minArea = minArea]
    /\ UNCHANGED <<input, ipc, detected, touched, produced, callConfig>>
    /\ UNCHANGED <<fillVars, detVars, dupVars, oblVars, apxVars>>

SetMaxArea ==
    /\ RectangleDetectorAtRest
    /\ \E maxArea \in MaxAreaValues :
          /\ config' = [config EXCEPT !.maxArea = maxArea]
          /\ lastSet' = [lastSet EXCEPT !.maxArea = maxArea]
    /\ UNCHANGED <<input, ipc, detected, touched, produced, callConfig>>
    /\ UNCHANGED <<fillVars, detVars, dupVars, oblVars, apxVars>>

SetApproxEpsilon ==
    /\ RectangleDetectorAtRest
    /\ \E epsilon \in EpsilonValues :
          /\ config' = [config EXCEPT !.approxEpsilon = epsilon]
          /\ lastSet' = [lastSet EXCEPT !.approxEpsilon = epsilon]
    /\ UNCHANGED <<input, ipc, detected, touched, produced, callConfig>>
    /\ UNCHANGED <<fillVars, detVars, dupVars, oblVars, apxVars>>

SetMinRadius ==
    /\ ObloidDetectorAtRest
    /\ \E minRadius \in MinRadiusValues :
          /\ oconfig' = [oconfig EXCEPT !.minRadius = minRadius]
          /\ lastSet' = [lastSet EXCEPT !.minRadius = minRadius]
    /\ UNCHANGED <<oapi, ocontours, obloids, circles, opc, callConfig>>
    /\ UNCHANGED <<fillVars, detVars, dupVars, pipVars, apxVars>>

SetMaxRadius ==
    /\ ObloidDetectorAtRest
    /\ \E maxRadius \in MaxRadiusValues :
          /\ oconfig' = [oconfig EXCEPT !.maxRadius = maxRadius]
          /\ lastSet' = [lastSet EXCEPT !.maxRadius = maxRadius]
    /\ UNCHANGED <<oapi, ocontours, obloids, circles, opc, callConfig>>
    /\ UNCHANGED <<fillVars, detVars, dupVars, pipVars, apxVars>>

SetCircularityThreshold ==
    /\ ObloidDetectorAtRest
    /\ \E threshold \in CircularityValues :
          /\ oconfig' = [oconfig EXCEPT !.circularityThreshold = threshold]
          /\ lastSet' = [lastSet EXCEPT !.circularityThreshold = threshold]
    /\ UNCHANGED <<oapi, ocontours, obloids, circles, opc, callConfig>>
    /\ UNCHANGED <<fillVars, detVars, dupVars, pipVars, apxVars>>

SetConfidenceThreshold ==
    /\ ObloidDetectorAtRest
    /\ \E threshold \in ConfidenceValues :
          /\ oconfig' = [oconfig EXCEPT !.confidenceThreshold = threshold]
          /\ lastSet' = [lastSet EXCEPT !.confidenceThreshold = threshold]
    /\ UNCHANGED <<oapi, ocontours, obloids, circles, opc, callConfig>>
    /\ UNCHANGED <<fillVars, detVars, dupVars, pipVars, apxVars>>

\* the caller enters DetectRectangles
CallDetectRectangles ==
    /\ RectangleDetectorAtRest
    /\ input' \in ConfigImages
    /\ ipc' = "standard"
    /\ detected' = <<>>
    /\ touched' = {}
    /\ produced' = {}
    /\ callConfig' = lastSet
    /\ UNCHANGED <<config, lastSet>>
    /\ UNCHANGED <<fillVars, detVars, dupVars, oblVars, apxVars>>

\* the caller enters DetectObloids or DetectSpheres, whose PreprocessImage
\* and FindContours yield the contours of the scene
CallDetectObloids ==
    /\ ObloidDetectorAtRest
    /\ ocontours' \in ConfigScenes
    /\ opc' = "evaluate"
    /\ obloids' = <<>>
    /\ circles' = <<>>
    /\ callConfig' = lastSet
    /\ UNCHANGED <<oapi, oconfig, lastSet>>
    /\ UNCHANGED <<fillVars, detVars, dupVars, pipVars, apxVars>>

InitConfig ==
    /\ \/ /\ input = <<>>
          /\ config = ConstructRectangleDetector
          /\ lastSet = ConstructRectangleDetector
          /\ ipc = "ready"
          /\ detected = <<>>
          /\ touched = {}
          /\ produced = {}
          /\ IdleObloid
       \/ /\ oapi \in {"DetectObloids", "DetectSpheres"}
          /\ oconfig = ConstructObloidDetector
          /\ lastSet = ConstructObloidDetector
          /\ ocontours = <<>>
          /\ obloids = <<>>
          /\ circles = <<>>
          /\ opc = "ready"
          /\ IdlePipeline
    /\ callConfig = <<>>
    /\ IdleFill
    /\ IdleDetect
    /\ IdleDedup
    /\ IdleApprox

NextConfig ==
    \/ SetMinArea
    \/ SetMaxArea
    \/ SetApproxEpsilon
    \/ SetMinRadius
    \/ SetMaxRadius
    \/ SetCircularityThreshold
    \/ SetConfidenceThreshold
    \/ CallDetectRectangles
    \/ RunStandard
    \/ RunEnhanced
    \/ RunMorphological
    \/ FinishDetectRectangles
    \/ CallDetectObloids
    \/ EvaluateSequential
    \/ DedupObloids
    \/ ReturnObloids
    \/ ReturnSpheres

SpecConfig == InitConfig /\ [][NextConfig]_vars

\* the lists DetectRectangles can return for a raster under given parameters
DetectRectanglesResults(cfg, img) ==
    {RemoveDuplicateRectangles(a \o b \o c \o DetectRectanglesUsingHoughLines(img)) :
        a \in ProcessContoursAtScale(cfg, FindContours(PreprocessImage(img))),
        b \in ProcessContoursAtScale(cfg, FindContours(PreprocessImageEnhanced(img))),
        c \in ProcessContoursAtScale(cfg, FindContours(PreprocessImageMorphological(img)))}

\* the list DetectObloids or DetectSpheres returns for at most
\* ParallelThreshold contours under given parameters
DetectObloidsResult(api, cfg, cs) ==
    CASE ~(Len(cs) > ParallelThreshold) ->
        Let(RemoveDuplicateObloids(
                ObloidsOf(cfg, cs, ObloidAcceptedIndices(cfg, cs), 1)),
            LAMBDA kept : IF api = "DetectSpheres"
                          THEN [i \in DOMAIN kept |-> ToSphere(kept[i])]
                          ELSE kept)

(***************************************************************************)
(* C16.  Each setter stores the value it is given, whatever it is, and     *)
(* leaves the other parameters as they were, and a detection call changes  *)
(* no parameter: the detector's parameters are at every moment the values  *)
(* last given by the constructor or a setter.  What a call returns is what *)
(* the detection yields under the values that were last set when it began. *)
(***************************************************************************)
C16_CallsUseLastSetValues ==
    /\ ipc # "idle" => config = lastSet
    /\ opc # "idle" => oconfig = lastSet
    /\ ipc = "done" => detected \in DetectRectanglesResults(callConfig, input)
    /\ opc = "done" =>
          circles = DetectObloidsResult(oapi, ObloidConfigFor(callConfig), ocontours)

\* a call has returned a rectangle after the limits were set to values other
\* than the constructor's, and a setter has since been given a limit below
\* the minimum
C16_Witness ==
    /\ ipc = "done"
    /\ detected # <<>>
    /\ callConfig.minArea = -1
    /\ callConfig.approxEpsilon = 50
    /\ config.maxArea = 10
    /\ config.minArea = 30
    /\ config # callConfig


(***************************************************************************)
(* ApproximateContour step by step on one contour: the strategies in the   *)
(* order of the code, the loop over epsilonMultipliers one multiplier at a *)
(* time.                                                                   *)
(***************************************************************************)
\* a tilted rectangle as 36 points: 12 steps of <<2, 1>> from <<6, 0>>, 6 of
\* <<-1, 2>>, 12 of <<-2, -1>> and 5 of <<1, -2>>
TiltedContour ==
    [i \in 1 .. 36 |->
        CASE i <= 12 -> <<6 + 2 * (i - 1), i - 1>>
          [] i <= 18 -> <<30 - (i - 13), 12 + 2 * (i - 13)>>
          [] i <= 30 -> <<24 - 2 * (i - 19), 24 - (i - 19)>>
          [] OTHER   -> <<i - 31, 12 - 2 * (i - 31)>>]

\* a tilted rectangle as 33 points whose second side is long enough for two
\* windows of DetectLines: 6 steps of <<2, 1>> from <<11, 0>>, 11 of
\* <<-1, 2>>, 6 of <<-2, -1>> and 10 of <<1, -2>>
LongTiltedContour ==
    [i \in 1 .. 33 |->
        CASE i <= 6 -> <<11 + 2 * (i - 1), i - 1>>
          [] i <= 17 -> <<23 - (i - 7), 6 + 2 * (i - 7)>>
          [] i <= 23 -> <<12 - 2 * (i - 18), 28 - (i - 18)>>
          [] OTHER   -> <<i - 24, 22 - 2 * (i - 24)>>]

\* contours of fewer than 4 points, of a unit square and of a flat triangle
SmallContours ==
    {<<(<<0, 0>>), (<<1, 0>>), (<<0, 1>>)>>,
     <<(<<0, 0>>), (<<1, 0>>), (<<1, 1>>), (<<0, 1>>)>>,
     <<(<<0, 0>>), (<<1, 0>>), (<<2, 0>>), (<<1, 1>>)>>}

\* the contours FindContours yields for rasters holding one rectangle
RasterContours ==
    Range(FindContours(PreprocessImage(RectangleImage(<<2, 2>>, <<9, 6>>))))
    \cup Range(FindContours(PreprocessImage(RectangleImage(<<3, 2>>, <<7, 8>>))))
    \cup Range(FindContours(PreprocessImageEnhanced(RectangleImage(<<2, 2>>, <<9, 6>>))))

\* rectangles with dents in their sides: a 20 x 10 one dented on all four
\* sides, and 26 x 16 ones with one dent, far from or near to a corner
NotchedContours ==
    {<<(<<0, 0>>), (<<10, 3>>), (<<20, 0>>), (<<17, 5>>),
       (<<20, 10>>), (<<10, 7>>), (<<0, 10>>), (<<3, 5>>)>>,
     <<(<<2, 1>>), (<<15, 4>>), (<<28, 1>>), (<<28, 17>>), (<<2, 17>>)>>,
     <<(<<2, 1>>), (<<7, 5>>), (<<28, 1>>), (<<28, 17>>), (<<2, 17>>)>>,
     <<(<<0, 0>>), (<<13, 3>>), (<<26, 0>>), (<<26, 16>>), (<<0, 16>>)>>}

\* a rectangle with a bulge on one side: a convex pentagon whose sharpest
\* vertex is <<2, 14>> and whose flattest is the bulge <<25, 7>>
BulgedContour ==
    <<(<<2, 1>>), (<<22, 1>>), (<<25, 7>>), (<<22, 13>>), (<<2, 14>>)>>

ApproxContours ==
    SmallContours \cup RasterContours \cup {TiltedContour, LongTiltedContour}
    \cup NotchedContours \cup {BulgedContour}

ApproxConfigs ==
    {RectangleConfig(30, 10000), RectangleConfig(500, 10000),
     RectangleConfig(30, 200),
     [RectangleConfig(30, 200) EXCEPT !.approxEpsilon = 50]}

\* the strategies of ApproximateContour in the order of its code
Strategies == <<"moment", "hough", "curvature", "multiEpsilon", "hull", "fallback">>

\* mutant: the convex hull is tried before the loop over the multipliers
StrategyAfterHullFirst(strategyName) ==
    CASE strategyName = "moment" -> "hough"
      [] strategyName = "hough" -> "curvature"
      [] strategyName = "curvature" -> "hull"
      [] strategyName = "hull" -> "multiEpsilon"
      [] strategyName = "multiEpsilon" -> "fallback"

\* the block of ApproximateContour that follows the block of a strategy
StrategyAfter(strategyName) ==
    CASE strategyName = "moment" -> "hough"
      [] strategyName = "hough" -> "curvature"
      [] strategyName = "curvature" -> "multiEpsilon"
      [] strategyName = "multiEpsilon" -> "hull"
      [] strategyName = "hull" -> "fallback"

\* the approximation of one multiplier of the loop
MultiplierApproximation(cfg, contour, k) ==
    DouglasPeucker(contour, EpsilonValue(cfg, CalculatePerimeter(contour),
                                         EpsilonMultipliers[k], 200))

\* the convex hull branch: the hull of 4 to 8 points, or <<>>
HullApproximation(contour) ==
    Let(ConvexHull(contour), LAMBDA hull :
        IF Len(hull) >= 4 /\ Len(hull) <= 8 THEN hull ELSE <<>>)

\* the final fallback
FallbackApproximation(cfg, contour) ==
    DouglasPeucker(contour, EpsilonValue(cfg, CalculatePerimeter(contour), 100, 300))

\* a strategy's block has computed candidate: return it if it is accepted,
\* go on to the next block otherwise
ReturnOrGoOn(strategyName, candidate) ==
    /\ tried' = Append(tried, strategyName)
    /\ IF candidate # <<>>
       THEN /\ apxResult' = candidate
            /\ returnedBy' = strategyName
            /\ apc' = "returned"
       ELSE /\ apc' = StrategyAfter(strategyName)
            /\ UNCHANGED <<apxResult, returnedBy>>
    /\ UNCHANGED <<apxContour, apxConfig, multiplierIndex, recVars>>
    /\ UNCHANGED <<fillVars, detVars, dupVars, oblVars, pipVars, cfgVars>>

\* if (contour.size() < 4) return contour
EnterApproximateContour ==
    /\ apc = "call"
    /\ IF Len(apxContour) < 4
       THEN /\ apxResult' = apxContour
            /\ returnedBy' = "size"
            /\ apc' = "returned"
       ELSE /\ apc' = "moment"
            /\ UNCHANGED <<apxResult, returnedBy>>
    /\ UNCHANGED <<apxContour, apxConfig, multiplierIndex, tried, recVars>>
    /\ UNCHANGED <<fillVars, detVars, dupVars, oblVars, pipVars, cfgVars>>

TryMoment ==
    /\ apc = "moment"
    /\ ReturnOrGoOn("moment", MomentApproximation(apxConfig, apxContour))

TryHough ==
    /\ apc = "hough"
    /\ ReturnOrGoOn("hough", HoughApproximation(apxContour))

TryCurvature ==
    /\ apc = "curvature"
    /\ ReturnOrGoOn("curvature", CurvatureApproximation(apxContour))

\* one iteration of the loop over epsilonMultipliers
TryMultiplier ==
    /\ apc = "multiEpsilon"
    /\ tried' = IF multiplierIndex = 1 THEN Append(tried, "multiEpsilon") ELSE tried
    /\ \E approx \in {MultiplierApproximation(apxConfig, apxContour, multiplierIndex)} :
          IF Len(approx) = 4 \/ (Len(approx) >= 5 /\ Len(approx) <= 12)
          THEN /\ apxResult' = approx
               /\ returnedBy' = "multiEpsilon"
               /\ apc' = "returned"
               /\ UNCHANGED multiplierIndex
          ELSE /\ IF multiplierIndex < Len(EpsilonMultipliers)
                  THEN /\ multiplierIndex' = multiplierIndex + 1
                       /\ UNCHANGED apc
                  ELSE /\ apc' = StrategyAfter("multiEpsilon")
                       /\ UNCHANGED multiplierIndex
               /\ UNCHANGED <<apxResult, returnedBy>>
    /\ UNCHANGED <<apxContour, apxConfig, recVars>>
    /\ UNCHANGED <<fillVars, detVars, dupVars, oblVars, pipVars, cfgVars>>

TryHull ==
    /\ apc = "hull"
    /\ ReturnOrGoOn("hull", HullApproximation(apxContour))

ReturnFallback ==
    /\ apc = "fallback"
    /\ tried' = Append(tried, "fallback")
    /\ apxResult' = FallbackApproximation(apxConfig, apxContour)
    /\ returnedBy' = "fallback"
    /\ apc' = "returned"
    /\ UNCHANGED <<apxContour, apxConfig, multiplierIndex, recVars>>
    /\ UNCHANGED <<fillVars, detVars, dupVars, oblVars, pipVars, cfgVars>>

\* if (IsRectangle(contour)), on the vertex list ApproximateContour returned
CallIsRectangle ==
    /\ apc = "returned"
    /\ verdict' = IF IsRectangleOf(apxConfig, apxContour, apxResult)
                  THEN "accepted" ELSE "rejected"
    /\ apc' = "classified"
    /\ UNCHANGED <<apxContour, apxConfig, multiplierIndex, apxResult, tried,
                   returnedBy, afterCleanup, cleanCorners, created>>
    /\ UNCHANGED <<fillVars, detVars, dupVars, oblVars, pipVars, cfgVars>>

\* Rectangle rect = CreateRectangle(contour), for a contour IsRectangle accepts
CallCreateRectangle ==
    /\ apc = "classified"
    /\ verdict = "accepted"
    /\ \E kept \in {CleanupCorners(apxResult)} :
         \E corners \in {CornersForExtraction(kept)} :
           \E rect \in {RectangleFromCorners(apxContour, corners)} :
             /\ afterCleanup' = kept
             /\ cleanCorners' = corners
             /\ IF rect.assigned
                THEN created' = [center |-> rect.center, width |-> rect.width,
                                 height |-> rect.height]
                ELSE created' \in [center : {rect.center}, width : Indeterminate,
                                   height : Indeterminate]
    /\ apc' = "created"
    /\ UNCHANGED <<apxContour, apxConfig, multiplierIndex, apxResult, tried,
                   returnedBy, verdict>>
    /\ UNCHANGED <<fillVars, detVars, dupVars, oblVars, pipVars, cfgVars>>

InitApprox ==
    /\ apxContour \in ApproxContours
    /\ apxConfig \in ApproxConfigs
    /\ apc = "call"
    /\ multiplierIndex = 1
    /\ apxResult = <<>>
    /\ tried = <<>>
    /\ returnedBy = "none"
    /\ verdict = "none"
    /\ afterCleanup = <<>>
    /\ cleanCorners = <<>>
    /\ created = <<>>
    /\ IdleFill
    /\ IdleDetect
    /\ IdleDedup
    /\ IdleObloid
    /\ IdlePipeline
    /\ IdleConfig

NextApprox ==
    \/ EnterApproximateContour
    \/ TryMoment
    \/ TryHough
    \/ TryCurvature
    \/ TryMultiplier
    \/ TryHull
    \/ ReturnFallback
    \/ CallIsRectangle
    \/ CallCreateRectangle

SpecApprox == InitApprox /\ [][NextApprox]_vars

\* what a strategy yields for the contour on its own: its accepted result,
\* or <<>> when its gate is closed or its result is not accepted
StrategyResult(strategyName) ==
    CASE strategyName = "moment" -> MomentApproximation(apxConfig, apxContour)
      [] strategyName = "hough" -> HoughApproximation(apxContour)
      [] strategyName = "curvature" -> CurvatureApproximation(apxContour)
      [] strategyName = "multiEpsilon" ->
            MultiEpsilonApproximation(apxConfig, apxContour,
                                      CalculatePerimeter(apxContour), 1)
      [] strategyName = "hull" -> HullApproximation(apxContour)
      [] strategyName = "fallback" -> FallbackApproximation(apxConfig, apxContour)

\* position of a strategy in the fixed order
StrategyRank(strategyName) ==
    CHOOSE k \in DOMAIN Strategies : Strategies[k] = strategyName

(***************************************************************************)
(* C17.  For a contour of 4 points or more ApproximateContour reaches the  *)
(* strategies in the order moment, Hough, curvature, multi-epsilon, convex *)
(* hull, fallback, and what it returns is the result of the first strategy *)
(* in that order that yields an accepted result: every strategy before it  *)
(* was reached and yielded none.  When none of the five yields one, the    *)
(* result is that of the single-tolerance Douglas-Peucker fallback.        *)
(***************************************************************************)
C17_FirstAcceptedStrategyReturns ==
    /\ \A k \in DOMAIN tried : tried[k] = Strategies[k]
    /\ (apc = "returned" /\ returnedBy # "size") =>
          /\ tried[Len(tried)] = returnedBy
          /\ apxResult = StrategyResult(returnedBy)
          /\ \A k \in 1 .. StrategyRank(returnedBy) - 1 :
                StrategyResult(Strategies[k]) = <<>>
          /\ returnedBy # "fallback" => apxResult # <<>>
          /\ apxResult = ApproximateContour(apxConfig, apxContour)

\* the Hough strategy has returned its 4 corners after the moment strategy
\* yielded none
C17_Witness ==
    /\ apc = "returned"
    /\ returnedBy = "hough"
    /\ Len(apxResult) = 4
    /\ tried = <<"moment", "hough">>
    /\ Len(apxContour) > HoughThreshold


\* the multipliers, by position, whose approximation has a number of
\* vertices in sizes
MultipliersGiving(sizes) ==
    {k \in DOMAIN EpsilonMultipliers :
        Len(MultiplierApproximation(apxConfig, apxContour, k)) \in sizes}

\* the first of a non-empty set of positions
FirstOf(positions) == CHOOSE k \in positions : \A j \in positions : k <= j

(***************************************************************************)
(* C18.  When the loop over the multipliers returns, its result is the     *)
(* 4-vertex approximation of the first multiplier that gives exactly 4     *)
(* vertices, if any multiplier of the sequence gives 4; only if none does  *)
(* is it the approximation of the first multiplier giving 5 to 12.         *)
(***************************************************************************)
C18_FourVerticesPreferred ==
    (apc = "returned" /\ returnedBy = "multiEpsilon") =>
        IF MultipliersGiving({4}) # {}
        THEN apxResult = MultiplierApproximation(apxConfig, apxContour,
                                                 FirstOf(MultipliersGiving({4})))
        ELSE apxResult = MultiplierApproximation(apxConfig, apxContour,
                                                 FirstOf(MultipliersGiving(5 .. 12)))

\* what the loop does: it returns the approximation of the first multiplier
\* giving 4 to 12 vertices
FirstUsableMultiplierReturned ==
    (apc = "returned" /\ returnedBy = "multiEpsilon") =>
        /\ multiplierIndex = FirstOf(MultipliersGiving(4 .. 12))
        /\ apxResult = MultiplierApproximation(apxConfig, apxContour, multiplierIndex)

\* the loop has returned 5 vertices or more although a later multiplier
\* gives exactly 4
LaterMultiplierGivesFour ==
    /\ apc = "returned"
    /\ returnedBy = "multiEpsilon"
    /\ Len(apxResult) > 4
    /\ \E k \in MultipliersGiving({4}) : k > multiplierIndex

CountsUpToSixAreReduced ==
    (apc \in {"classified", "created"} /\ Len(apxContour) >= 4
     /\ Len(apxResult) \in {5, 6})
    => (verdict = "accepted"
        <=> PassesRectangleTests(apxConfig, apxContour,
                                 SelectBestCorners(apxResult)))

\* sub holds elements of seq in the order of seq
RECURSIVE IsSubsequenceOf(_, _)
IsSubsequenceOf(sub, seq) ==
    IF sub = <<>> THEN TRUE
    ELSE IF seq = <<>> THEN FALSE
    ELSE IF Head(sub) = Head(seq) THEN IsSubsequenceOf(Tail(sub), Tail(seq))
    ELSE IsSubsequenceOf(sub, Tail(seq))

\* every two points of the list are at least the squared distance apart
PairwiseApart(points, distanceSquared) ==
    \A i, j \in DOMAIN points :
        i < j => (points[i][1] - points[j][1]) * (points[i][1] - points[j][1])
                 + (points[i][2] - points[j][2]) * (points[i][2] - points[j][2])
                   >= distanceSquared

\* the merge threshold the claim names for an input of CleanupCorners
MergeThresholdFor(corners) == IF Len(corners) <= 4 THEN 1 ELSE 64

(***************************************************************************)
(* C20: in CreateRectangle, CleanupCorners returns a subsequence of the    *)
(* vertex list it is given, with the first point kept and the order        *)
(* preserved, in which every two points have squared distance >= the merge *)
(* threshold (1 for at most 4 points given, 64 for more); and the 4        *)
(* corners that width and height are computed from are pairwise at least   *)
(* that far apart.                                                         *)
(***************************************************************************)
C20_ExtractionCornersAreMerged ==
    apc = "created"
    => /\ IsSubsequenceOf(afterCleanup, apxResult)
       /\ apxResult # <<>> => afterCleanup # <<>> /\ afterCleanup[1] = apxResult[1]
       /\ PairwiseApart(afterCleanup, MergeThresholdFor(apxResult))
       /\ afterCleanup = CleanupCorners(apxResult)
       /\ Len(cleanCorners) = 4
            => /\ PairwiseApart(cleanCorners, MergeThresholdFor(apxResult))
               /\ Range(cleanCorners) \subseteq Range(afterCleanup)

\* 5 vertices of which CleanupCorners merges one into the first corner, and a
\* rectangle computed from the 4 that are left
C20_Witness ==
    /\ apc = "created"
    /\ Len(apxResult) = 5
    /\ Len(afterCleanup) = 4
    /\ afterCleanup = SelectSeq(apxResult, LAMBDA c : c # apxResult[2])
    /\ ~PairwiseApart(apxResult, 64)
    /\ cleanCorners = afterCleanup
    /\ created.width = 26
    /\ created.height = 16

\* 5 vertices that are all kept, reduced to 4 corners by SelectBestCorners
FiveKeptFourUsed ==
    /\ apc = "created"
    /\ Len(afterCleanup) = 5
    /\ Len(cleanCorners) = 4
    /\ created.width = 26

(***************************************************************************)
(* SpecFillFair: SpecFill where the sequential program always takes its    *)
(* next step.                                                              *)
(***************************************************************************)
SpecFillFair == SpecFill /\ WF_vars(NextFill)

\* the segments the step has pushed: those of stack' from the popped position on
PushedNow(k) == k \in DOMAIN stack' /\ k >= Len(stack) /\ k >= 1

\* the pops a fill of a region of n pixels can take: the first segment and
\* one segment for each pixel and each of the two neighbouring rows
PopBound(n) == 2 * n + 1

(***************************************************************************)
(* C21: ScanlineFillContour terminates for every raster and every seed:    *)
(* the segment stack becomes empty; the number of pops is bounded by a     *)
(* function of the pixel count of the region; every pushed run holds at    *)
(* least one unvisited foreground pixel when it is pushed.                 *)
(***************************************************************************)
C21_FillTerminates ==
    /\ [](fpc = "fill"
           => pops <= PopBound(Cardinality(ComponentOf(image, visited0, seed))))
    /\ [](FillFinished => pops <= PopBound(Len(region)))
    /\ [][\A k \in DOMAIN stack' :
            PushedNow(k) /\ stack' # stack
            => \E x \in stack'[k].x1 .. stack'[k].x2 :
                  Fillable(image, visited', x, stack'[k].y)]_vars
    /\ (fpc = "fill") ~> FillFinished
    /\ <>(fpc = "done")

\* a finished fill of the ring around a hole: a run of it was pushed twice,
\* and popped the second time with nothing left to mark
C21_Witness ==
    /\ FillFinished
    /\ Len(region) = 8
    /\ image.pixels[<<1, 1>>] = 0
    /\ pops = 5

\* the candidates in the order std::sort leaves them in
SortedCandidates == SortByArea(<<>>, candidates)

\* list without the positions outside kept
Restricted(list, kept) ==
    LET idx == SelectSeq([i \in 1 .. Len(list) |-> i], LAMBDA i : i \in kept)
    IN [k \in 1 .. Len(idx) |-> list[idx[k]]]

\* the positions of kept are retained and the others dropped as C22 says:
\* a dropped position has a retained duplicate before it, of no smaller
\* area, and a retained position has no retained duplicate before it
DroppedForRetained(list, kept) ==
    /\ \A j \in DOMAIN list \ kept :
          \E i \in kept : /\ i < j
                          /\ RectArea(list[i]) >= RectArea(list[j])
                          /\ AreDuplicates(list[i], list[j])
    /\ \A j \in kept :
          ~\E i \in kept : i < j /\ AreDuplicates(list[i], list[j])

(***************************************************************************)
(* C22: RemoveDuplicateRectangles drops a rectangle only if a rectangle    *)
(* that remains in the final list precedes it in the order of descending   *)
(* width * height and is a duplicate of it; a rectangle that was dropped   *)
(* causes no drop; a rectangle without a retained duplicate before it is   *)
(* kept.                                                                   *)
(***************************************************************************)
C22_DroppedOnlyForRetained ==
    (rpc = "done" /\ Len(candidates) > 1)
    => \E kept \in SUBSET DOMAIN SortedCandidates :
          /\ deduped = Restricted(SortedCandidates, kept)
          /\ DroppedForRetained(SortedCandidates, kept)

\* three candidates of which the second is a duplicate of the first and the
\* third a duplicate of the second only: the second is dropped, the third stays
C22_Witness ==
    /\ rpc = "done"
    /\ Len(candidates) = 3
    /\ AreDuplicates(SortedCandidates[1], SortedCandidates[2])
    /\ AreDuplicates(SortedCandidates[2], SortedCandidates[3])
    /\ ~AreDuplicates(SortedCandidates[1], SortedCandidates[3])
    /\ candidates # SortedCandidates
    /\ deduped = <<SortedCandidates[1], SortedCandidates[3]>>

(***************************************************************************)
(* SpecOrder: a call of DetectRectangles on a scene (SpecDetect) or a call *)
(* of DetectObloids / DetectSpheres on a scene (SpecObloid).               *)
(***************************************************************************)
InitOrder == InitDetect \/ InitObloid

NextOrder == NextDetect \/ NextObloid

SpecOrder == InitOrder /\ [][NextOrder]_vars

NonIncreasingArea(list) ==
    \A i \in DOMAIN list : \A j \in DOMAIN list :
        i < j => RectArea(list[i]) >= RectArea(list[j])

NonIncreasingRadius(list) ==
    \A i \in DOMAIN list : \A j \in DOMAIN list :
        i < j => list[i].radius >= list[j].radius

(***************************************************************************)
(* C23: the list DetectRectangles returns is ordered by non-increasing     *)
(* width * height, the list DetectObloids / DetectSpheres returns by       *)
(* non-increasing radius; the removal of the marked duplicates keeps the   *)
(* retained candidates in the order the sort gave them.                    *)
(***************************************************************************)
C23_ResultsOrderedBySize ==
    /\ [](\A r \in DOMAIN results : NonIncreasingArea(results[r]))
    /\ [](opc = "done" => NonIncreasingRadius(circles))
    /\ [][dedupRuns' = dedupRuns + 1
           => IsSubsequenceOf(rectangles', SortByArea(<<>>, rectangles))]_vars
    /\ [][opc = "dedup" /\ opc' = "return"
           => IsSubsequenceOf(obloids', SortByRadius(<<>>, obloids))]_vars

\* a call returned the rectangles of its first and its last contour, the
\* larger one of the last contour first
C23_Witness ==
    /\ dpc = "done"
    /\ Len(results) = 1
    /\ Len(results[1]) >= 2
    /\ results[1][1] = SceneRectangle(ParallelThreshold + 1)
    /\ results[1][2] = SceneRectangle(1)
    /\ RectArea(results[1][1]) > RectArea(results[1][2])

\* a call returned circles of different radii
CirclesOfTwoRadiiReturned ==
    /\ opc = "done"
    /\ Len(circles) >= 2
    /\ circles[1].radius > circles[Len(circles)].radius


(***************************************************************************)
(* SpecMerge: RemoveDuplicateObloids as a function of its argument, from   *)
(* the point of DetectObloids where the accepted obloids are collected.    *)
(* The candidates are circles around three centers on a row, of radii that *)
(* are equal, within a factor of 2 of each other, or further apart: a disc *)
(* inside a ring gives two accepted obloids of one center.                 *)
(***************************************************************************)
CandidateObloids ==
    {[center |-> <<x, 32>>, radius |-> r, confidence |-> [num |-> 9, den |-> 10]] :
        x \in {32, 36, 60}, r \in {4, 7, 14}}

InitMerge ==
    /\ oapi \in {"DetectObloids", "DetectSpheres"}
    /\ oconfig = [minRadius |-> 0, maxRadius |-> 100,
                  circularityThreshold |-> 800, confidenceThreshold |-> 700]
    /\ ocontours = <<>>
    /\ obloids \in ListsUpTo(CandidateObloids, MaxRects)
    /\ circles = <<>>
    /\ opc = "dedup"
    /\ IdleFill
    /\ IdleDetect
    /\ IdleDedup
    /\ IdlePipeline
    /\ IdleConfig
    /\ IdleApprox

NextMerge == DedupObloids \/ ReturnObloids \/ ReturnSpheres

SpecMerge == InitMerge /\ [][NextMerge]_vars

\* the fusion rule for circles: center distance below 0.7 of the radius sum
\* and smaller radius over larger radius above 0.5
FusionRuleHolds(a, b) ==
    /\ 100 * ((a.center[1] - b.center[1]) * (a.center[1] - b.center[1])
              + (a.center[2] - b.center[2]) * (a.center[2] - b.center[2]))
         < 49 * (a.radius + b.radius) * (a.radius + b.radius)
    /\ 2 * Min2(a.radius, b.radius) > Max2(a.radius, b.radius)

\* every position outside kept has a position of kept before it with which
\* the fusion rule holds
DroppedByFusionRule(list, kept) ==
    \A j \in DOMAIN list \ kept :
        \E i \in kept : i < j /\ FusionRuleHolds(list[i], list[j])

(***************************************************************************)
(* C24: RemoveDuplicateObloids drops a candidate only when, with respect   *)
(* to an earlier retained candidate, the center distance is below 0.7 of   *)
(* the radius sum and the smaller radius is more than 0.5 of the larger;   *)
(* candidates whose radii differ by more than a factor of 2 are never      *)
(* merged.                                                                 *)
(***************************************************************************)
C24_CirclesMergedByBothConditions ==
    [][opc = "dedup" /\ opc' = "return" /\ Len(obloids) > 1
       => \E kept \in SUBSET DOMAIN obloids :
             /\ obloids' = Restricted(SortByRadius(<<>>, obloids), kept)
             /\ DroppedByFusionRule(SortByRadius(<<>>, obloids), kept)]_vars

\* the same with the one condition RemoveDuplicateObloids tests
DroppedByDistanceAlone(list, kept) ==
    /\ \A j \in DOMAIN list \ kept :
          \E i \in kept : i < j /\ ObloidsOverlap(list[i], list[j])
    /\ \A j \in kept :
          ~\E i \in kept : i < j /\ ObloidsOverlap(list[i], list[j])

CirclesMergedByDistanceAlone ==
    [][opc = "dedup" /\ opc' = "return" /\ Len(obloids) > 1
       => \E kept \in SUBSET DOMAIN obloids :
             /\ obloids' = Restricted(SortByRadius(<<>>, obloids), kept)
             /\ DroppedByDistanceAlone(SortByRadius(<<>>, obloids), kept)]_vars

\* a circle of radius 4 was merged into one of radius 14 of the same center
SmallCircleMergedIntoLarge ==
    /\ opc = "done"
    /\ Len(circles) = 1
    /\ circles[1].radius = 14
    /\ circles[1].center = <<32, 32>>

\* the truncated centroid SortBoundaryPointsRadix sorts about
SortCenter(points) ==
    <<SumSeq(points, 1) \div Len(points), SumSeq(points, 2) \div Len(points)>>

\* neither point is less than the other under the comparator about c
SortEquivalent(c, a, b) ==
    ~BoundaryLess(c[1], c[2], a, b) /\ ~BoundaryLess(c[1], c[2], b, a)

ComparatorIrreflexive(points) ==
    \E c \in {SortCenter(points)} :
        \A i \in DOMAIN points : ~BoundaryLess(c[1], c[2], points[i], points[i])

ComparatorTransitive(points) ==
    \E c \in {SortCenter(points)} :
        \A i, j \in DOMAIN points :
            BoundaryLess(c[1], c[2], points[i], points[j])
            => \A k \in DOMAIN points :
                  BoundaryLess(c[1], c[2], points[j], points[k])
                  => BoundaryLess(c[1], c[2], points[i], points[k])

EquivalenceTransitive(points) ==
    \E c \in {SortCenter(points)} :
        \A i, j \in DOMAIN points :
            SortEquivalent(c, points[i], points[j])
            => \A k \in DOMAIN points :
                  SortEquivalent(c, points[j], points[k])
                  => SortEquivalent(c, points[i], points[k])

\* the quadrant index of the points, about the truncated centroid, in list order
QuadrantsOf(points) ==
    Let(SortCenter(points), LAMBDA c :
        [i \in DOMAIN points |->
            Quadrant(points[i][1] - c[1], points[i][2] - c[2])])

IsPermutationOf(s, t) ==
    /\ Len(s) = Len(t)
    /\ \A p \in Range(s) \cup Range(t) :
          Cardinality({i \in DOMAIN s : s[i] = p})
          = Cardinality({i \in DOMAIN t : t[i] = p})

\* the step in which FindContours of RectangleDetector gets a sorted boundary
BoundarySorted ==
    /\ finder = "RectangleDetector"
    /\ lastBoundary' # lastBoundary
    /\ Len(lastBoundary') >= 3

(***************************************************************************)
(* C25: the comparator of SortBoundaryPointsRadix, quadrant about the      *)
(* truncated centroid and then sign of the cross product, is a strict weak *)
(* ordering on the distinct boundary points of a region: irreflexive,      *)
(* transitive, with transitive incomparability, also when a boundary point *)
(* is the centroid pixel or points are collinear with the centroid; the    *)
(* sorted list is a permutation of the input with non-decreasing quadrant  *)
(* index.                                                                  *)
(***************************************************************************)
C25_ComparatorIsStrictWeakOrdering ==
    [][BoundarySorted
       => /\ ComparatorIrreflexive(lastBoundary')
          /\ ComparatorTransitive(lastBoundary')
          /\ EquivalenceTransitive(lastBoundary')
          /\ IsPermutationOf(lastBoundary', ExtractBoundaryPoints(image, region))
          /\ \E quadrants \in {QuadrantsOf(lastBoundary')} :
                \A i \in 1 .. Len(lastBoundary') - 1 :
                    quadrants[i] <= quadrants[i + 1]]_vars

\* what holds of the comparator on every boundary: all but the transitivity
\* of incomparability
ComparatorIsStrictPartialOrder ==
    [][BoundarySorted
       => /\ ComparatorIrreflexive(lastBoundary')
          /\ ComparatorTransitive(lastBoundary')
          /\ IsPermutationOf(lastBoundary', ExtractBoundaryPoints(image, region))
          /\ \E quadrants \in {QuadrantsOf(lastBoundary')} :
                \A i \in 1 .. Len(lastBoundary') - 1 :
                    quadrants[i] <= quadrants[i + 1]]_vars

\* a boundary point at the centroid pixel is the one case in which the
\* incomparability is not transitive
EquivalenceFailsOnlyAtCentroid ==
    [][BoundarySorted /\ ~EquivalenceTransitive(lastBoundary')
       => SortCenter(lastBoundary') \in Range(lastBoundary')]_vars

(***************************************************************************)
(* The lines FindRectangleUsingHoughLines selects.                         *)
(***************************************************************************)
\* selectedLines after the first pass over the lines of the contour
SelectedLines(contour) == SelectLines(DetectLines(contour), 1, <<>>)

\* ApproximateContour has called FindRectangleUsingHoughLines on the contour
HoughCalled ==
    /\ "hough" \in Range(tried)
    /\ Len(apxContour) > HoughThreshold
    /\ ~IsLikelyCircularContour(apxContour)

SelectedLinesMeetTheCounts ==
    HoughCalled
    => \E selectedLines \in {SelectedLines(apxContour)} :
          \A i \in 2 .. Len(selectedLines) :
              Cardinality({k \in 1 .. i - 1 :
                  AreLinesPerpendicular(selectedLines[i], selectedLines[k])})
              = (IF i = 4 THEN 2 ELSE 1)

\* the 3rd selected line is parallel to the 2nd, both lying on one side of
\* the tilted rectangle, and no corners are returned
ThirdLineParallelToSecond ==
    /\ HoughCalled
    /\ apxContour = LongTiltedContour
    /\ Len(SelectedLines(apxContour)) = 4
    /\ ~AreLinesPerpendicular(SelectedLines(apxContour)[2], SelectedLines(apxContour)[3])
    /\ FindRectangleUsingHoughLines(apxContour) = <<>>

(***************************************************************************)
(* The corners SelectBestCorners keeps of a hull of more than 4 vertices.  *)
(***************************************************************************)
\* IsRectangle has called SelectBestCorners on the vertex list, and the
\* convex hull of the list has more than 4 vertices
BestCornersSelectedFromHull ==
    /\ apc \in {"classified", "created"}
    /\ Len(apxContour) >= 4
    /\ Len(apxResult) \in {5, 6}
    /\ Len(ConvexHull(apxResult)) > 4

\* no vertex of the hull left out turns more sharply (has a smaller
\* interior angle) than a vertex that was selected
SharpestSelected(hull, selected) ==
    \E angles \in {HullAngles(hull)} :
        \A i, j \in DOMAIN hull :
            (hull[i] \in Range(selected) /\ hull[j] \notin Range(selected))
            => angles[i] <= angles[j]

\* no vertex of the hull left out is flatter than a vertex that was selected
FlattestSelected(hull, selected) ==
    \E angles \in {HullAngles(hull)} :
        \A i, j \in DOMAIN hull :
            (hull[i] \in Range(selected) /\ hull[j] \notin Range(selected))
            => angles[i] >= angles[j]

\* the points are in the order of the comparator of SortBoundaryPointsRadix
InBoundarySortOrder(points) ==
    \E c \in {SortCenter(points)} :
        \A i, j \in DOMAIN points :
            i < j => ~BoundaryLess(c[1], c[2], points[j], points[i])

FlattestHullVerticesSelected ==
    BestCornersSelectedFromHull
    => \E hull \in {ConvexHull(apxResult)} :
          \E selected \in {SelectBestCorners(apxResult)} :
              /\ Len(selected) = 4
              /\ Cardinality(Range(selected)) = 4
              /\ Range(selected) \subseteq Range(hull)
              /\ InBoundarySortOrder(selected)
              /\ FlattestSelected(hull, selected)

\* the bulge of the pentagon is selected and its sharpest vertex is left out
BulgeSelectedSharpestLeftOut ==
    /\ BestCornersSelectedFromHull
    /\ apxResult = BulgedContour
    /\ <<25, 7>> \in Range(SelectBestCorners(apxResult))
    /\ <<2, 14>> \notin Range(SelectBestCorners(apxResult))
    /\ verdict = "rejected"

(***************************************************************************)
(* IsRectangle and CreateRectangle on one contour.                         *)
(***************************************************************************)
\* the 4 corners IsRectangle ran its tests on
ValidatedCorners ==
    IF Len(apxResult) > 4 THEN SelectBestCorners(apxResult) ELSE apxResult

\* C28: no partial acceptance.  For a contour IsRectangle accepted,
\* CreateRectangle reaches the parameter extraction with exactly 4 corners,
\* the ones the classifier validated, and returns a rectangle whose width and
\* height were assigned; a rectangle returned early with unassigned fields
\* never reaches the test width > 0 && height > 0
C28_NoPartialAcceptance ==
    apc = "created"
    => /\ verdict = "accepted"
       /\ Len(cleanCorners) = 4
       /\ cleanCorners = ValidatedCorners
       /\ RectangleFromCorners(apxContour, cleanCorners).assigned
       /\ created.width = RectangleFromCorners(apxContour, cleanCorners).width
       /\ created.height = RectangleFromCorners(apxContour, cleanCorners).height

\* an accepted contour with a corner at the origin: SelectBestCorners keeps
\* the origin, CreateRectangle drops it as an unset entry and returns early
\* with 3 corners, and the unassigned width and height pass the test
UnassignedRectanglePassesTheTest ==
    /\ apc = "created"
    /\ verdict = "accepted"
    /\ <<0, 0>> \in Range(ValidatedCorners)
    /\ Len(afterCleanup) = 5
    /\ Len(cleanCorners) = 3
    /\ ~RectangleFromCorners(apxContour, cleanCorners).assigned
    /\ created.width > 0
    /\ created.height > 0

\* an accepted contour for which CreateRectangle extracts the parameters
\* from 4 corners that are not the ones IsRectangle validated
ExtractionFromOtherCorners ==
    /\ apc = "created"
    /\ Len(cleanCorners) = 4
    /\ cleanCorners # ValidatedCorners

(***************************************************************************)
(* The circularity gate of IsObloid.                                       *)
(***************************************************************************)
\* the sides of the bounding box of a contour, the longer one first
BoundingSides(contour) ==
    Let(<<SetMax({q[1] : q \in Range(contour)}) - SetMin({q[1] : q \in Range(contour)}) + 1,
          SetMax({q[2] : q \in Range(contour)}) - SetMin({q[2] : q \in Range(contour)}) + 1>>,
        LAMBDA side : <<Max2(side[1], side[2]), Min2(side[1], side[2])>>)

\* a contour at least 4 times as long as it is wide, and one as long as wide
Elongated(contour) == BoundingSides(contour)[1] >= 4 * BoundingSides(contour)[2]

Compact(contour) == BoundingSides(contour)[1] = BoundingSides(contour)[2]

\* circularity thresholds within (0, 1), in thousandths
ThresholdsWithinUnit == 1 .. 999

\* IsObloid has run on contours of the scene of which one is elongated and
\* one is compact
GateRanOnTwoShapes ==
    /\ opc # "evaluate"
    /\ \E i, j \in DOMAIN ocontours :
          Elongated(ocontours[i]) /\ Compact(ocontours[j])

\* C29: the circularity gate of IsObloid discriminates by shape: for an
\* elongated and a compact contour there is a threshold within (0, 1) that
\* the compact one passes and the elongated one does not, so that raising
\* circularityThreshold changes which contours pass; and a contour whose
\* circularity is below the threshold is rejected
C29_CircularityGateDiscriminates ==
    opc # "evaluate"
    => /\ \A i \in DOMAIN ocontours :
             ~CircularityAtLeast(ocontours[i], RunningConfig.circularityThreshold)
             => ~IsObloid(RunningConfig, ocontours[i]).ok
       /\ \A i, j \in DOMAIN ocontours :
             (Elongated(ocontours[i]) /\ Compact(ocontours[j]))
             => \E threshold \in ThresholdsWithinUnit :
                   /\ CircularityAtLeast(ocontours[j], threshold)
                   /\ ~CircularityAtLeast(ocontours[i], threshold)

\* what the gate does: every contour of 3 points or more passes it for every
\* threshold within (0, 1), and a contour below the threshold is rejected
CircularityGatePassesEveryShape ==
    opc # "evaluate"
    => \A i \in DOMAIN ocontours :
          /\ ~CircularityAtLeast(ocontours[i], RunningConfig.circularityThreshold)
             => ~IsObloid(RunningConfig, ocontours[i]).ok
          /\ \A threshold \in ThresholdsWithinUnit :
                CircularityAtLeast(ocontours[i], threshold)

(***************************************************************************)
(* DouglasPeuckerRecursive over the whole contour.                         *)
(***************************************************************************)
\* the positions of the multipliers whose approximation has been computed
MultipliersApplied ==
    IF "multiEpsilon" \notin Range(tried) THEN {}
    ELSE IF apc = "multiEpsilon" THEN 1 .. multiplierIndex - 1
    ELSE 1 .. multiplierIndex

\* the tolerances, in hundredths, DouglasPeuckerRecursive has been run with
\* on the contour
TolerancesApplied ==
    {EpsilonValue(apxConfig, CalculatePerimeter(apxContour), EpsilonMultipliers[k], 200) :
        k \in MultipliersApplied}
    \cup (IF returnedBy = "fallback"
          THEN {EpsilonValue(apxConfig, CalculatePerimeter(apxContour), 100, 300)}
          ELSE {})

\* keep after the recursion over [0, n - 1], as positions from 1
KeptIndices(contour, epsilon) ==
    {1, Len(contour)} \cup DouglasPeuckerRecursive(contour, 1, Len(contour), epsilon)

\* the points of the contour at the kept positions, in the order of the contour
PointsKept(contour, keep) ==
    Let(SelectSeq([i \in DOMAIN contour |-> i], LAMBDA i : i \in keep),
        LAMBDA positions : [k \in DOMAIN positions |-> contour[positions[k]]])

\* every point between two consecutive kept positions is within the
\* tolerance of the line through the points at the two positions
BetweenKeptWithinTolerance(contour, keep, epsilon) ==
    \A i, j \in keep :
        (i < j /\ \A m \in i + 1 .. j - 1 : m \notin keep)
        => \A k \in i + 1 .. j - 1 :
              \E d \in {PointToLineDistanceSquared(contour[k], contour[i], contour[j])} :
                  10000 * d.num <= epsilon * epsilon * d.den

\* the index the loop of one call leaves in maxIndex
MaxIndexOf(contour, start, end) ==
    LET dist(i) == PointToLineDistanceSquared(contour[i], contour[start],
                                              contour[end]).num
    IN IF \A i \in start + 1 .. end - 1 : dist(i) = 0 THEN start
       ELSE CHOOSE i \in start + 1 .. end - 1 :
              /\ \A k \in start + 1 .. end - 1 : dist(k) <= dist(i)
              /\ \A k \in start + 1 .. i - 1 : dist(k) < dist(i)

\* every call that recurses splits its range strictly inside, so both
\* recursive calls get a shorter range
RECURSIVE RangesShrink(_, _, _, _)
RangesShrink(contour, start, end, keep) ==
    IF end - start <= 1 \/ keep \cap (start + 1 .. end - 1) = {} THEN TRUE
    ELSE \E maxIndex \in {MaxIndexOf(contour, start, end)} :
            /\ start < maxIndex
            /\ maxIndex < end
            /\ maxIndex \in keep
            /\ RangesShrink(contour, start, maxIndex, keep)
            /\ RangesShrink(contour, maxIndex, end, keep)

\* C30: after DouglasPeuckerRecursive over [0, n - 1] with a tolerance the
\* kept points are a subsequence of the contour that holds its first and its
\* last point, every point between two consecutive kept positions has a
\* squared distance, as PointToLineDistanceSquared computes it, of at most
\* the squared tolerance from the line through the two kept points, and
\* every recursive call is on a shorter range, so the recursion terminates
C30_DouglasPeuckerKeepsWithinTolerance ==
    /\ \A epsilon \in TolerancesApplied :
          \E keep \in {KeptIndices(apxContour, epsilon)} :
              /\ 1 \in keep
              /\ Len(apxContour) \in keep
              /\ keep \subseteq DOMAIN apxContour
              /\ DouglasPeucker(apxContour, epsilon) = PointsKept(apxContour, keep)
              /\ IsSubsequenceOf(PointsKept(apxContour, keep), apxContour)
              /\ BetweenKeptWithinTolerance(apxContour, keep, epsilon)
              /\ RangesShrink(apxContour, 1, Len(apxContour), keep)
    /\ returnedBy \in {"multiEpsilon", "fallback"}
       => \E epsilon \in TolerancesApplied :
             apxResult = PointsKept(apxContour, KeptIndices(apxContour, epsilon))

\* the loop has returned 5 points of the contour of a raster rectangle:
\* points were kept inside the range, and points off the line between two
\* kept points, the corner <<9, 2>> among them, were dropped
C30_Witness ==
    /\ returnedBy = "multiEpsilon"
    /\ apxResult = <<(<<9, 5>>), (<<9, 9>>), (<<3, 9>>), (<<3, 2>>), (<<9, 4>>)>>
    /\ <<9, 2>> \in Range(apxContour)
    /\ \E epsilon \in TolerancesApplied :
          \E keep \in {KeptIndices(apxContour, epsilon)} :
              /\ apxResult = PointsKept(apxContour, keep)
              /\ Cardinality(keep) = 5
              /\ \E k \in DOMAIN apxContour \ keep :
                    \E i, j \in keep :
                        /\ i < k
                        /\ k < j
                        /\ \A m \in i + 1 .. j - 1 : m \notin keep
                        /\ PointToLineDistanceSquared(apxContour[k], apxContour[i],
                                                      apxContour[j]).num > 0

====
